---- MODULE Spec2Model ----
(***************************************************************************)
(* GameWiki (Dim Lantern GM Documentation System).                         *)
(*                                                                         *)
(* A model of the three-phase workflow of docs/js/workflow.js, of the      *)
(* IndexedDB stores of docs/js/storage.js and of the handlers of           *)
(* docs/js/app.js that drive them.                                         *)
(*                                                                         *)
(* Text is a sequence of one-character strings, so that String.trim,       *)
(* String.length and String.toLowerCase are computed, not assumed.         *)
(* The created/modified timestamps (Date.now()) are left out of the        *)
(* records: no operation of the model reads them.                          *)
(***************************************************************************)
EXTENDS Integers, Sequences, FiniteSets, TLC

VARIABLES
    currentSession,   \* app.js `let currentSession`: the open session, or NULL
    sessions,         \* IndexedDB object store 'sessions', keyed by id
    locations,        \* IndexedDB object store 'locations', keyed by id
    plotThreads,      \* IndexedDB object store 'plotThreads', keyed by id
    idCounter,        \* number of ids generateId has handed out
    output,           \* the last notification shown or value returned
    pending           \* the invocations suspended at an await, oldest first

vars == <<currentSession, sessions, locations, plotThreads, idCounter, output,
         pending>>

-----------------------------------------------------------------------------
(* Bounds of the model *)

\* sessions created in one behaviour
MaxSessions == 1
\* whitespace characters put before and after a test response
MaxPad == 1
\* completed sessions whose documents are merged into the entity stores
MaxMergeSessions == 2

-----------------------------------------------------------------------------
(* Text *)

\* the characters String.prototype.trim removes that the inputs use
WhiteSpace == {" ", "\n", "\t"}

Rep(c, n) == [i \in 1..n |-> c]

RECURSIVE TrimStart(_)
TrimStart(s) ==
    IF s = <<>> THEN s
    ELSE IF Head(s) \in WhiteSpace THEN TrimStart(Tail(s)) ELSE s

RECURSIVE TrimEnd(_)
TrimEnd(s) ==
    IF s = <<>> THEN s
    ELSE IF s[Len(s)] \in WhiteSpace THEN TrimEnd(SubSeq(s, 1, Len(s) - 1)) ELSE s

\* String.prototype.trim
trim(s) == TrimEnd(TrimStart(s))

UpperCase == <<"A","B","C","D","E","F","G","H","I","J","K","L","M",
               "N","O","P","Q","R","S","T","U","V","W","X","Y","Z">>
LowerCase == <<"a","b","c","d","e","f","g","h","i","j","k","l","m",
               "n","o","p","q","r","s","t","u","v","w","x","y","z">>

toLowerChar(c) ==
    IF \E i \in DOMAIN UpperCase : UpperCase[i] = c
    THEN LowerCase[CHOOSE i \in DOMAIN UpperCase : UpperCase[i] = c]
    ELSE c

\* String.prototype.toLowerCase
toLowerCase(s) == [i \in DOMAIN s |-> toLowerChar(s[i])]

\* String.prototype.split on a one-character separator
RECURSIVE SplitAcc(_, _, _)
SplitAcc(s, sep, cur) ==
    IF s = <<>> THEN <<cur>>
    ELSE IF Head(s) = sep THEN <<cur>> \o SplitAcc(Tail(s), sep, <<>>)
    ELSE SplitAcc(Tail(s), sep, Append(cur, Head(s)))

split(s, sep) == SplitAcc(s, sep, <<>>)

-----------------------------------------------------------------------------
(* workflow.js *)

PHASES == <<
    [number |-> 1, name |-> "Extract",   ai |-> "Claude Sonnet 4",
     description |-> "Extract locations and plot threads from transcript"],
    [number |-> 2, name |-> "Summarize", ai |-> "Claude Sonnet 4",
     description |-> "Generate wiki-style summaries for locations"],
    [number |-> 3, name |-> "Refine",    ai |-> "Gemini 2.5 Pro",
     description |-> "Validate and refine summaries for accuracy"] >>

\* the trimmed length below which validatePhase rejects a response
MinResponseLength == 100

\* createSession listing the phases from the last to the first
createSession_Reversed(id, title, date, transcript, tags) ==
    [id |-> id,
     title |-> title,
     date |-> date,
     transcript |-> transcript,
     tags |-> tags,
     currentPhase |-> 1,
     phases |-> [i \in DOMAIN PHASES |->
                    [number |-> PHASES[Len(PHASES) + 1 - i].number,
                     name |-> PHASES[Len(PHASES) + 1 - i].name,
                     ai |-> PHASES[Len(PHASES) + 1 - i].ai,
                     description |-> PHASES[Len(PHASES) + 1 - i].description,
                     prompt |-> <<>>,
                     response |-> <<>>,
                     completed |-> FALSE]],
     extractedLocations |-> <<>>,
     extractedPlotThreads |-> <<>>]

\* the default of the parameter `tags`
DefaultTags == <<>>

createSession(id, title, date, transcript, tags) ==
    [id |-> id,
     title |-> title,
     date |-> date,
     transcript |-> transcript,
     tags |-> tags,
     currentPhase |-> 1,
     phases |-> [i \in DOMAIN PHASES |->
                    [number |-> PHASES[i].number,
                     name |-> PHASES[i].name,
                     ai |-> PHASES[i].ai,
                     description |-> PHASES[i].description,
                     prompt |-> <<>>,
                     response |-> <<>>,
                     completed |-> FALSE]],
     extractedLocations |-> <<>>,
     extractedPlotThreads |-> <<>>]

parseTagsKeep(tag) == Len(tag) > 0

parseTags(tagString) ==
    IF tagString = <<>> THEN <<>>
    ELSE LET parts == split(tagString, ",")
             tags == [i \in DOMAIN parts |-> toLowerCase(trim(parts[i]))]
         IN  SelectSeq(tags, parseTagsKeep)

getCurrentPhase(session) == session.phases[session.currentPhase]

\* validatePhase measuring the response untrimmed
validatePhase_NoTrim(session) ==
    LET phase == session.phases[session.currentPhase]
    IN  IF phase.response = <<>>
        THEN [valid |-> FALSE, error |-> "Please paste the AI response"]
        ELSE IF Len(phase.response) < MinResponseLength
        THEN [valid |-> FALSE,
              error |-> "Response seems too short. Please check the AI output."]
        ELSE [valid |-> TRUE, error |-> ""]

\* validatePhase with <= for <
validatePhase_OffByOne(session) ==
    LET phase == session.phases[session.currentPhase]
    IN  IF phase.response = <<>> \/ trim(phase.response) = <<>>
        THEN [valid |-> FALSE, error |-> "Please paste the AI response"]
        ELSE IF Len(trim(phase.response)) <= MinResponseLength
        THEN [valid |-> FALSE,
              error |-> "Response seems too short. Please check the AI output."]
        ELSE [valid |-> TRUE, error |-> ""]

validatePhase(session) ==
    LET phase == session.phases[session.currentPhase]
    IN  IF phase.response = <<>> \/ trim(phase.response) = <<>>
        THEN [valid |-> FALSE, error |-> "Please paste the AI response"]
        ELSE IF Len(trim(phase.response)) < MinResponseLength
        THEN [valid |-> FALSE,
              error |-> "Response seems too short. Please check the AI output."]
        ELSE [valid |-> TRUE, error |-> ""]

\* advancePhase without the test on PHASES.length
advancePhase_NoGuard(session) ==
    [session EXCEPT !.phases[session.currentPhase].completed = TRUE,
                    !.currentPhase = session.currentPhase + 1]

\* advancePhase going round to the first phase after the last
advancePhase_Wrap(session) ==
    [session EXCEPT !.phases[session.currentPhase].completed = TRUE,
                    !.currentPhase = (session.currentPhase % Len(PHASES)) + 1]

\* advancePhase marking the phase only when its response is long enough
advancePhase_Validating(session) ==
    LET ok == Len(trim(session.phases[session.currentPhase].response))
                  >= MinResponseLength
        marked == [session EXCEPT !.phases[session.currentPhase].completed = ok \/ @]
    IN  IF session.currentPhase < Len(PHASES)
        THEN [marked EXCEPT !.currentPhase = session.currentPhase + 1]
        ELSE marked

\* advancePhase flipping the flag instead of setting it
advancePhase_Toggle(session) ==
    LET marked == [session EXCEPT !.phases[session.currentPhase].completed = ~@]
    IN  IF session.currentPhase < Len(PHASES)
        THEN [marked EXCEPT !.currentPhase = session.currentPhase + 1]
        ELSE marked

advancePhase(session) ==
    LET marked == [session EXCEPT !.phases[session.currentPhase].completed = TRUE]
    IN  IF session.currentPhase < Len(PHASES)
        THEN [marked EXCEPT !.currentPhase = session.currentPhase + 1]
        ELSE marked

\* isSessionComplete with some for every
isSessionComplete_Some(session) ==
    \E i \in DOMAIN session.phases : session.phases[i].completed

isSessionComplete(session) ==
    \A i \in DOMAIN session.phases : session.phases[i].completed

\* updatePhaseResponse replacing the phase record by a fresh one
updatePhaseResponse_Reset(session, response) ==
    [session EXCEPT !.phases[session.currentPhase].response = response,
                    !.phases[session.currentPhase].completed = FALSE]

updatePhaseResponse(session, response) ==
    [session EXCEPT !.phases[session.currentPhase].response = response]

\* Math.round of the fraction num/den, for num >= 0 and den > 0
MathRound(num, den) == (2 * num + den) \div (2 * den)

\* getProgress with Math.floor for Math.round
getProgress_Floor(session) ==
    LET completedPhases ==
            Cardinality({i \in DOMAIN session.phases : session.phases[i].completed})
    IN  (completedPhases * 100) \div Len(PHASES)

getProgress(session) ==
    LET completedPhases ==
            Cardinality({i \in DOMAIN session.phases : session.phases[i].completed})
    IN  MathRound(completedPhases * 100, Len(PHASES))

-----------------------------------------------------------------------------
(* workflow.js: the prompt builders.  The fixed wording of each template is  *)
(* shortened to its headings; what is embedded, and where, is as in the code *)

P1_HEAD ==
    <<"#"," ","P","h","a","s","e"," ","1",":"," ","E","x","t","r","a","c","t",
      " ","L","o","c","a","t","i","o","n","s"," ","a","n","d"," ","P","l","o",
      "t"," ","T","h","r","e","a","d","s","\n","\n","#","#"," ","S","e","s",
      "s","i","o","n",":"," ">>

P_DATE ==
    <<"\n","#","#"," ","D","a","t","e",":"," ">>

P1_TRANSCRIPT ==
    <<"\n","\n","#","#"," ","T","R","A","N","S","C","R","I","P","T",":","\n">>

P1_FORMAT ==
    <<"\n","\n","-","-","-","\n","\n","#","#","#"," ","L","O","C","A","T","I",
      "O","N","S","\n","#","#","#"," ","P","L","O","T"," ","T","H","R","E",
      "A","D","S">>

P2_HEAD ==
    <<"#"," ","P","h","a","s","e"," ","2",":"," ","G","e","n","e","r","a","t",
      "e"," ","W","i","k","i"," ","S","u","m","m","a","r","i","e","s","\n",
      "\n","#","#"," ","S","e","s","s","i","o","n",":"," ">>

P2_EXTRACTION ==
    <<"\n","\n","#","#"," ","P","H","A","S","E"," ","1"," ","E","X","T","R",
      "A","C","T","I","O","N",":","\n">>

P2_FORMAT ==
    <<"\n","\n","-","-","-","\n","\n","#","#"," ","S","e","s","s","i","o","n",
      " ">>

P2_EVENTS ==
    <<" ","E","v","e","n","t","s","\n","#","#"," ","S","e","s","s","i","o",
      "n"," ","H","i","s","t","o","r","y","\n","-"," ","*","*">>

P2_TAIL ==
    <<"*","*",":">>

P3_HEAD ==
    <<"#"," ","P","h","a","s","e"," ","3",":"," ","V","a","l","i","d","a","t",
      "e"," ","a","n","d"," ","R","e","f","i","n","e"," ","W","i","k","i"," ",
      "E","n","t","r","i","e","s","\n","\n","#","#"," ","S","e","s","s","i",
      "o","n",":"," ">>

P3_CONTENT ==
    <<"\n","\n","#","#"," ","G","E","N","E","R","A","T","E","D"," ","W","I",
      "K","I"," ","C","O","N","T","E","N","T",":","\n">>

P3_TASK ==
    <<"\n","\n","-","-","-","\n","\n","#","#"," ","O","U","T","P","U","T",":",
      "\n","V","a","l","i","d","a","t","e","d"," ","-"," ","N","o"," ","c",
      "h","a","n","g","e","s"," ","n","e","e","d","e","d">>

generatePhase1Prompt(session) ==
    P1_HEAD \o session.title \o P_DATE \o session.date
        \o P1_TRANSCRIPT \o session.transcript \o P1_FORMAT

generatePhase2Prompt(session) ==
    LET phase1Response == session.phases[1].response
    IN  P2_HEAD \o session.title \o P_DATE \o session.date
            \o P2_EXTRACTION \o phase1Response
            \o P2_FORMAT \o session.title \o P2_EVENTS \o session.date \o P2_TAIL

generatePhase3Prompt(session) ==
    LET phase2Response == session.phases[2].response
    IN  P3_HEAD \o session.title \o P3_CONTENT \o phase2Response \o P3_TASK

\* generatePrompt taking the builder of phase 3 at phase 2 and of phase 2 at 3
generatePrompt_Swapped(session) ==
    LET phase == session.phases[session.currentPhase]
    IN  IF phase.number = 1 THEN generatePhase1Prompt(session)
        ELSE IF phase.number = 2 THEN generatePhase3Prompt(session)
        ELSE IF phase.number = 3 THEN generatePhase2Prompt(session)
        ELSE <<>>

generatePrompt(session) ==
    LET phase == session.phases[session.currentPhase]
    IN  IF phase.number = 1 THEN generatePhase1Prompt(session)
        ELSE IF phase.number = 2 THEN generatePhase2Prompt(session)
        ELSE IF phase.number = 3 THEN generatePhase3Prompt(session)
        ELSE <<>>

-----------------------------------------------------------------------------
(* storage.js.  A store is a function from the ids of its records to the     *)
(* records; every operation takes the store and returns the value the        *)
(* request resolves with, or the store after the request.                    *)

\* what a lookup resolves with when no record matches (undefined), and the
\* value of currentSession when no session is open (null)
NULL == [null |-> TRUE]

EmptyStore == <<>>

Min(S) == CHOOSE x \in S : \A y \in S : x <= y

Max(S) == CHOOSE x \in S : \A y \in S : x >= y

\* IDBObjectStore.put: insert, or replace the record of the same id
put(store, record) ==
    [k \in DOMAIN store \cup {record.id} |->
        IF k = record.id THEN record ELSE store[k]]

\* IDBObjectStore.get
get(store, id) == IF id \in DOMAIN store THEN store[id] ELSE NULL

\* IDBObjectStore.delete
delete(store, id) == [k \in DOMAIN store \ {id} |-> store[k]]

\* IDBObjectStore.getAll: the records in the order of their keys
RECURSIVE getAll(_)
getAll(store) ==
    IF DOMAIN store = {} THEN <<>>
    ELSE LET k == Min(DOMAIN store)
         IN  <<store[k]>> \o getAll(delete(store, k))

saveSession(store, session) == put(store, session)

getSession(store, id) == get(store, id)

deleteSession(store, id) == delete(store, id)

saveLocation(store, location) == put(store, location)

getAllLocations(store) == getAll(store)

\* findLocationByName comparing the names as they are written
findLocationByName_CaseSensitive(store, name) ==
    LET all == getAllLocations(store)
        hits == {i \in DOMAIN all : all[i].name = name}
    IN  IF hits = {} THEN NULL ELSE all[Min(hits)]

findLocationByName(store, name) ==
    LET all == getAllLocations(store)
        hits == {i \in DOMAIN all : toLowerCase(all[i].name) = toLowerCase(name)}
    IN  IF hits = {} THEN NULL ELSE all[Min(hits)]

savePlotThread(store, thread) == put(store, thread)

getAllPlotThreads(store) == getAll(store)

\* findPlotThreadByName taking a name that starts with the one asked for
findPlotThreadByName_StartsWith(store, name) ==
    LET all == getAllPlotThreads(store)
        hits == {i \in DOMAIN all :
                    /\ Len(all[i].name) >= Len(name)
                    /\ SubSeq(toLowerCase(all[i].name), 1, Len(name))
                           = toLowerCase(name)}
    IN  IF hits = {} THEN NULL ELSE all[Min(hits)]

findPlotThreadByName(store, name) ==
    LET all == getAllPlotThreads(store)
        hits == {i \in DOMAIN all : toLowerCase(all[i].name) = toLowerCase(name)}
    IN  IF hits = {} THEN NULL ELSE all[Min(hits)]

\* generateId: Date.now() and a random suffix.  Only the order of the
\* timestamps and the ids' being distinct is modelled.
generateId(counter) == counter + 1

\* the id a parsed entity gets: one no record of its store has
freshId(store) == IF DOMAIN store = {} THEN 1 ELSE Max(DOMAIN store) + 1

-----------------------------------------------------------------------------
(* workflow.js: parseLocations and parsePlotThreads *)

RULE_LINE ==
    <<"\n","-","-","-","\n">>

H1 ==
    <<"#"," ">>

NEXT_HEADING ==
    <<"\n","#">>

TYPE_LABEL ==
    <<"*","*","T","y","p","e","*","*",":">>

REGION_LABEL ==
    <<"*","*","R","e","g","i","o","n","*","*",":">>

STATUS_LABEL ==
    <<"*","*","S","t","a","t","u","s","*","*",":">>

PRIORITY_LABEL ==
    <<"*","*","P","r","i","o","r","i","t","y","*","*",":">>

OVERVIEW ==
    <<"#","#"," ","O","v","e","r","v","i","e","w">>

NPCS ==
    <<"#","#"," ","N","o","t","a","b","l","e"," ","N","P","C","s">>

CONNECTIONS ==
    <<"#","#"," ","C","o","n","n","e","c","t","i","o","n","s">>

SUMMARY ==
    <<"#","#"," ","S","u","m","m","a","r","y">>

HOOKS ==
    <<"#","#"," ","U","n","r","e","s","o","l","v","e","d"," ","H","o","o","k",
      "s">>

RELATED ==
    <<"#","#"," ","R","e","l","a","t","e","d"," ","L","o","c","a","t","i","o",
      "n","s">>

LINK_OPEN ==
    <<"[","[">>

LINK_CLOSE ==
    <<"]","]">>

\* String.prototype.indexOf, 1-based, 0 when pat does not occur from `from` on
IndexOf(s, pat, from) ==
    LET hits == {i \in from..(Len(s) - Len(pat) + 1) :
                    SubSeq(s, i, i + Len(pat) - 1) = pat}
    IN  IF hits = {} THEN 0 ELSE Min(hits)

\* String.prototype.split on a separator string
RECURSIVE splitOn(_, _)
splitOn(s, pat) ==
    LET i == IndexOf(s, pat, 1)
    IN  IF i = 0 THEN <<s>>
        ELSE <<SubSeq(s, 1, i - 1)>> \o splitOn(SubSeq(s, i + Len(pat), Len(s)), pat)

\* the index of the first character of `stops` at or after `from`, Len(s)+1 if none
StopAt(s, from, stops) ==
    LET hits == {i \in from..Len(s) : s[i] \in stops}
    IN  IF hits = {} THEN Len(s) + 1 ELSE Min(hits)

\* the blocks of a document: the text between horizontal-rule lines
blocksOf(response) ==
    LET parts == splitOn(response, RULE_LINE)
    IN  [i \in DOMAIN parts |-> trim(parts[i])]

\* the text of the block's first top-level heading, <<>> when it has none
headingOf(block) ==
    LET starts == {p \in 1..Len(block) :
                      /\ p = 1 \/ block[p - 1] = "\n"
                      /\ SubSeq(block, p, p + Len(H1) - 1) = H1}
    IN  IF starts = {} THEN <<>>
        ELSE LET p == Min(starts)
             IN  trim(SubSeq(block, p + Len(H1), StopAt(block, p, {"\n"}) - 1))

\* the value that follows `label` on its metadata line, <<>> when absent
metaValue(block, label) ==
    LET i == IndexOf(block, label, 1)
    IN  IF i = 0 THEN <<>>
        ELSE trim(SubSeq(block, i + Len(label),
                         StopAt(block, i + Len(label), {"|", "\n"}) - 1))

\* the text under the section heading `heading`, up to the next heading
sectionOf(block, heading) ==
    LET i == IndexOf(block, heading, 1)
    IN  IF i = 0 THEN <<>>
        ELSE LET from == StopAt(block, i, {"\n"})
                 next == IndexOf(block, NEXT_HEADING, from)
                 to   == IF next = 0 THEN Len(block) ELSE next - 1
             IN  trim(SubSeq(block, from, to))

\* the names inside [[ ]] in order of appearance
RECURSIVE wikiLinks(_)
wikiLinks(text) ==
    LET i == IndexOf(text, LINK_OPEN, 1)
        j == IF i = 0 THEN 0 ELSE IndexOf(text, LINK_CLOSE, i + Len(LINK_OPEN))
    IN  IF i = 0 \/ j = 0 THEN <<>>
        ELSE <<trim(SubSeq(text, i + Len(LINK_OPEN), j - 1))>>
                \o wikiLinks(SubSeq(text, j + Len(LINK_CLOSE), Len(text)))

\* isLocationBlock taking every block that has a heading
isLocationBlock_AnyHeading(block) == headingOf(block) # <<>>

isLocationBlock(block) ==
    headingOf(block) # <<>> /\ IndexOf(block, TYPE_LABEL, 1) # 0

\* isPlotThreadBlock not looking for the Type line
isPlotThreadBlock_StatusOnly(block) ==
    /\ headingOf(block) # <<>>
    /\ IndexOf(block, STATUS_LABEL, 1) # 0

isPlotThreadBlock(block) ==
    /\ headingOf(block) # <<>>
    /\ IndexOf(block, TYPE_LABEL, 1) = 0
    /\ IndexOf(block, STATUS_LABEL, 1) # 0

\* locationOf leaving sessions for the merge to fill
locationOf_NoSessions(block, id, sessionRef) ==
    [id |-> id,
     name |-> headingOf(block),
     type |-> metaValue(block, TYPE_LABEL),
     region |-> metaValue(block, REGION_LABEL),
     overview |-> sectionOf(block, OVERVIEW),
     npcs |-> sectionOf(block, NPCS),
     connections |-> wikiLinks(sectionOf(block, CONNECTIONS)),
     sessions |-> <<>>,
     rawContent |-> block]

locationOf(block, id, sessionRef) ==
    [id |-> id,
     name |-> headingOf(block),
     type |-> metaValue(block, TYPE_LABEL),
     region |-> metaValue(block, REGION_LABEL),
     overview |-> sectionOf(block, OVERVIEW),
     npcs |-> sectionOf(block, NPCS),
     connections |-> wikiLinks(sectionOf(block, CONNECTIONS)),
     sessions |-> <<sessionRef>>,
     rawContent |-> block]

plotThreadOf(block, id, sessionRef) ==
    [id |-> id,
     name |-> headingOf(block),
     status |-> metaValue(block, STATUS_LABEL),
     priority |-> metaValue(block, PRIORITY_LABEL),
     summary |-> sectionOf(block, SUMMARY),
     hooks |-> sectionOf(block, HOOKS),
     relatedLocations |-> wikiLinks(sectionOf(block, RELATED)),
     sessions |-> <<sessionRef>>,
     rawContent |-> block]

\* parseLocations(response, sessionId, sessionTitle, sessionDate); the k-th
\* entity returned gets the id firstId + k - 1
parseLocations(response, sessionId, sessionTitle, sessionDate, firstId) ==
    IF response = <<>> THEN <<>>
    ELSE LET found == SelectSeq(blocksOf(response), isLocationBlock)
             sessionRef == [id |-> sessionId, title |-> sessionTitle,
                            date |-> sessionDate]
         IN  [k \in DOMAIN found |-> locationOf(found[k], firstId + k - 1, sessionRef)]

parsePlotThreads(response, sessionId, sessionTitle, sessionDate, firstId) ==
    IF response = <<>> THEN <<>>
    ELSE LET found == SelectSeq(blocksOf(response), isPlotThreadBlock)
             sessionRef == [id |-> sessionId, title |-> sessionTitle,
                            date |-> sessionDate]
         IN  [k \in DOMAIN found |-> plotThreadOf(found[k], firstId + k - 1, sessionRef)]

-----------------------------------------------------------------------------
(* app.js: extractAndSaveFromSession *)

BLOCK_DELIMITER ==
    <<"\n","\n","-","-","-","\n","\n">>

\* the test on existing.sessions never finding the session
hasSession_Never(existing, sessionId) == FALSE

hasSession(existing, sessionId) ==
    \E i \in DOMAIN existing.sessions : existing.sessions[i].id = sessionId

\* mergeLocation putting the new page before the stored text
mergeLocation_Prepend(acc, loc, sessionRef) ==
    LET existing == findLocationByName(acc.store, loc.name)
    IN  IF existing # NULL
        THEN IF ~hasSession(existing, sessionRef.id)
             THEN [store |-> saveLocation(acc.store,
                        [existing EXCEPT
                            !.sessions = Append(@, sessionRef),
                            !.rawContent = loc.rawContent \o BLOCK_DELIMITER \o @]),
                   saved |-> acc.saved,
                   puts |-> Append(acc.puts, existing.id)]
             ELSE acc
        ELSE [store |-> saveLocation(acc.store, loc), saved |-> acc.saved + 1,
              puts |-> Append(acc.puts, loc.id)]

\* mergeLocation counting the merged pages too
mergeLocation_CountMerged(acc, loc, sessionRef) ==
    LET existing == findLocationByName(acc.store, loc.name)
    IN  IF existing # NULL
        THEN IF ~hasSession(existing, sessionRef.id)
             THEN [store |-> saveLocation(acc.store,
                        [existing EXCEPT
                            !.sessions = Append(@, sessionRef),
                            !.rawContent = @ \o BLOCK_DELIMITER \o loc.rawContent]),
                   saved |-> acc.saved + 1,
                   puts |-> Append(acc.puts, existing.id)]
             ELSE acc
        ELSE [store |-> saveLocation(acc.store, loc), saved |-> acc.saved + 1,
              puts |-> Append(acc.puts, loc.id)]

\* mergeLocation taking type and region from the new page
mergeLocation_UpdateFields(acc, loc, sessionRef) ==
    LET existing == findLocationByName(acc.store, loc.name)
    IN  IF existing # NULL
        THEN IF ~hasSession(existing, sessionRef.id)
             THEN [store |-> saveLocation(acc.store,
                        [existing EXCEPT
                            !.sessions = Append(@, sessionRef),
                            !.type = loc.type,
                            !.region = loc.region,
                            !.rawContent = @ \o BLOCK_DELIMITER \o loc.rawContent]),
                   saved |-> acc.saved,
                   puts |-> Append(acc.puts, existing.id)]
             ELSE acc
        ELSE [store |-> saveLocation(acc.store, loc), saved |-> acc.saved + 1,
              puts |-> Append(acc.puts, loc.id)]

\* one pass of the loop over parsedLocations; acc is [store, saved, puts]:
\* the store, savedLocations, and the ids saveLocation was called with
mergeLocation(acc, loc, sessionRef) ==
    LET existing == findLocationByName(acc.store, loc.name)
    IN  IF existing # NULL
        THEN IF ~hasSession(existing, sessionRef.id)
             THEN [store |-> saveLocation(acc.store,
                        [existing EXCEPT
                            !.sessions = Append(@, sessionRef),
                            !.rawContent = @ \o BLOCK_DELIMITER \o loc.rawContent]),
                   saved |-> acc.saved,
                   puts |-> Append(acc.puts, existing.id)]
             ELSE acc
        ELSE [store |-> saveLocation(acc.store, loc), saved |-> acc.saved + 1,
              puts |-> Append(acc.puts, loc.id)]

\* mergePlotThread without the test on existing.sessions
mergePlotThread_NoGuard(acc, thread, sessionRef) ==
    LET existing == findPlotThreadByName(acc.store, thread.name)
    IN  IF existing # NULL
        THEN [store |-> savePlotThread(acc.store,
                        [existing EXCEPT
                            !.sessions = Append(@, sessionRef),
                            !.status = thread.status,
                            !.rawContent = @ \o BLOCK_DELIMITER \o thread.rawContent]),
              saved |-> acc.saved,
              puts |-> Append(acc.puts, existing.id)]
        ELSE [store |-> savePlotThread(acc.store, thread), saved |-> acc.saved + 1,
              puts |-> Append(acc.puts, thread.id)]

\* mergePlotThread keeping the status the stored thread has
mergePlotThread_KeepStatus(acc, thread, sessionRef) ==
    LET existing == findPlotThreadByName(acc.store, thread.name)
    IN  IF existing # NULL
        THEN IF ~hasSession(existing, sessionRef.id)
             THEN [store |-> savePlotThread(acc.store,
                        [existing EXCEPT
                            !.sessions = Append(@, sessionRef),
                            !.rawContent = @ \o BLOCK_DELIMITER \o thread.rawContent]),
                   saved |-> acc.saved,
                   puts |-> Append(acc.puts, existing.id)]
             ELSE acc
        ELSE [store |-> savePlotThread(acc.store, thread), saved |-> acc.saved + 1,
              puts |-> Append(acc.puts, thread.id)]

\* one pass of the loop over parsedThreads
mergePlotThread(acc, thread, sessionRef) ==
    LET existing == findPlotThreadByName(acc.store, thread.name)
    IN  IF existing # NULL
        THEN IF ~hasSession(existing, sessionRef.id)
             THEN [store |-> savePlotThread(acc.store,
                        [existing EXCEPT
                            !.sessions = Append(@, sessionRef),
                            !.status = thread.status,
                            !.rawContent = @ \o BLOCK_DELIMITER \o thread.rawContent]),
                   saved |-> acc.saved,
                   puts |-> Append(acc.puts, existing.id)]
             ELSE acc
        ELSE [store |-> savePlotThread(acc.store, thread), saved |-> acc.saved + 1,
              puts |-> Append(acc.puts, thread.id)]

RECURSIVE mergeLocations(_, _, _)
mergeLocations(acc, parsed, sessionRef) ==
    IF parsed = <<>> THEN acc
    ELSE mergeLocations(mergeLocation(acc, Head(parsed), sessionRef),
                        Tail(parsed), sessionRef)

RECURSIVE mergePlotThreads(_, _, _)
mergePlotThreads(acc, parsed, sessionRef) ==
    IF parsed = <<>> THEN acc
    ELSE mergePlotThreads(mergePlotThread(acc, Head(parsed), sessionRef),
                          Tail(parsed), sessionRef)

\* extractAndSaveFromSession taking a Plot Thread page for known when a
\* Location of its name is stored
extractAndSaveFromSession_SharedNames(session, locs, threads) ==
    LET phase3Response == session.phases[3].response
    IN  IF phase3Response = <<>>
        THEN [locationStore |-> locs, threadStore |-> threads,
              locations |-> 0, threads |-> 0,
              locationPuts |-> <<>>, threadPuts |-> <<>>]
        ELSE LET sessionRef == [id |-> session.id, title |-> session.title,
                                date |-> session.date]
                 parsedLocations ==
                     parseLocations(phase3Response, session.id, session.title,
                                    session.date, freshId(locs))
                 parsedThreads ==
                     parsePlotThreads(phase3Response, session.id, session.title,
                                      session.date, freshId(threads))
                 l == mergeLocations([store |-> locs, saved |-> 0, puts |-> <<>>],
                                     parsedLocations, sessionRef)
                 notLocation(thread) ==
                     findLocationByName(l.store, thread.name) = NULL
                 t == mergePlotThreads([store |-> threads, saved |-> 0,
                                        puts |-> <<>>],
                                       SelectSeq(parsedThreads, notLocation),
                                       sessionRef)
             IN  [locationStore |-> l.store, threadStore |-> t.store,
                  locations |-> l.saved, threads |-> t.saved,
                  locationPuts |-> l.puts, threadPuts |-> t.puts]

\* the stores after extractAndSaveFromSession(session), what it returns
\* (locations, threads), and the ids it has called saveLocation and
\* savePlotThread with
extractAndSaveFromSession(session, locs, threads) ==
    LET phase3Response == session.phases[3].response
    IN  IF phase3Response = <<>>
        THEN [locationStore |-> locs, threadStore |-> threads,
              locations |-> 0, threads |-> 0,
              locationPuts |-> <<>>, threadPuts |-> <<>>]
        ELSE LET sessionRef == [id |-> session.id, title |-> session.title,
                                date |-> session.date]
                 parsedLocations ==
                     parseLocations(phase3Response, session.id, session.title,
                                    session.date, freshId(locs))
                 parsedThreads ==
                     parsePlotThreads(phase3Response, session.id, session.title,
                                      session.date, freshId(threads))
                 l == mergeLocations([store |-> locs, saved |-> 0, puts |-> <<>>],
                                     parsedLocations, sessionRef)
                 t == mergePlotThreads([store |-> threads, saved |-> 0,
                                        puts |-> <<>>],
                                       parsedThreads, sessionRef)
             IN  [locationStore |-> l.store, threadStore |-> t.store,
                  locations |-> l.saved, threads |-> t.saved,
                  locationPuts |-> l.puts, threadPuts |-> t.puts]

-----------------------------------------------------------------------------
(* Inputs: what the operator types or pastes *)

SP == <<" ">>
NL == <<"\n">>
BAR == <<" ","|"," ">>
BULLET == <<"-"," ">>

\* l blanks, n letters, r newlines
Pad(l, n, r) == Rep(" ", l) \o Rep("x", n) \o Rep("\n", r)

\* a Location page as the phase-2 template lays it out
LocationBlock(name, type, region, link) ==
    H1 \o name \o NL \o NL
       \o TYPE_LABEL \o SP \o type
       \o (IF region = <<>> THEN <<>> ELSE BAR \o REGION_LABEL \o SP \o region)
       \o NL \o NL \o OVERVIEW \o NL \o Rep("x", 3)
       \o NL \o NL \o CONNECTIONS \o NL \o BULLET \o LINK_OPEN \o link \o LINK_CLOSE

\* a Plot Thread page as the phase-2 template lays it out
PlotThreadBlock(name, status, priority, link) ==
    H1 \o name \o NL \o NL
       \o STATUS_LABEL \o SP \o status \o BAR \o PRIORITY_LABEL \o SP \o priority
       \o NL \o NL \o SUMMARY \o NL \o Rep("y", 3)
       \o NL \o NL \o RELATED \o NL \o BULLET \o LINK_OPEN \o link \o LINK_CLOSE

Inn == <<"I","n","n">>
INN == <<"I","N","N">>
Cult == <<"C","u","l","t">>
Town == <<"T","o","w","n">>
North == <<"N","o","r","t","h">>
Active == <<"A","c","t","i","v","e">>
Resolved == <<"R","e","s","o","l","v","e","d">>
High == <<"H","i","g","h">>

\* one Location and one Plot Thread
DocA ==
    LocationBlock(Inn, Town, North, Cult)
        \o BLOCK_DELIMITER \o PlotThreadBlock(Cult, Active, High, Inn)

\* the same entities as another session reports them: the name in another
\* case, no region, the thread resolved
DocB ==
    PlotThreadBlock(Cult, Resolved, High, INN)
        \o BLOCK_DELIMITER \o LocationBlock(INN, Town, <<>>, Cult)

Keep == <<"K","e","e","p">>
Low == <<"L","o","w">>

\* a Location page of a heading and a metadata line only
LocationStub(name, type, region) ==
    H1 \o name \o NL \o NL
       \o TYPE_LABEL \o SP \o type
       \o (IF region = <<>> THEN <<>> ELSE BAR \o REGION_LABEL \o SP \o region)

\* a Plot Thread page of a heading and a metadata line only
PlotThreadStub(name, status, priority) ==
    H1 \o name \o NL \o NL
       \o STATUS_LABEL \o SP \o status \o BAR \o PRIORITY_LABEL \o SP \o priority

\* a Location and a Plot Thread of the same name
DocC ==
    LocationBlock(Inn, Town, North, Cult)
        \o BLOCK_DELIMITER \o PlotThreadBlock(Inn, Active, High, Inn)

\* the same two as another session reports them, each on two pages with the
\* name in two cases, and a Location only this document has
DocD ==
    LocationStub(INN, Keep, <<>>)
        \o BLOCK_DELIMITER \o PlotThreadStub(INN, Resolved, Low)
        \o BLOCK_DELIMITER \o LocationStub(Cult, Keep, North)
        \o BLOCK_DELIMITER \o PlotThreadStub(Inn, Active, Low)
        \o BLOCK_DELIMITER \o LocationStub(Inn, Town, North)

\* a response of exactly the accepted length, with no entity in it
Plain == Pad(MaxPad, MinResponseLength, MaxPad)

\* one character short once trimmed, although long enough untrimmed
Short == Pad(MaxPad, MinResponseLength - 1, MaxPad)

Blank == Pad(MaxPad, 0, MaxPad)

\* what the operator has in the textarea when saving
Responses == {<<>>, Short, DocA}

\* responses around the limits of validatePhase: padded on either side, and
\* with white space inside
TestResponses ==
    {Pad(l, n, r) : l \in 0..MaxPad, r \in 0..MaxPad,
                    n \in {0, 1, MinResponseLength - 1, MinResponseLength,
                           MinResponseLength + 1}}
        \cup {Rep("x", n) \o SP \o NL \o Rep("x", 2) :
                    n \in {MinResponseLength - 5, MinResponseLength - 4}}

\* the phase-3 responses of the sessions that are merged
MergeResponses == {<<>>, DocC, DocD}

\* the titles of those sessions, by id
Digits == <<"1","2","3","4","5","6","7","8","9">>

TitleInputs == {<<>>, <<"S","1"," ">>}
DateInputs == {<<"2","0","2","4">>}
TagInputs == {<<"A",","," ","b",",">>}
TranscriptInputs == {<<" ">>, <<"t","x","t">>}

\* the arguments after `transcript` in a direct call of createSession: none,
\* or the tags
TagArguments == {<<>>, <<parseTags(<<"A",","," ","b",",">>)>>, << <<>> >>}

-----------------------------------------------------------------------------
(* The state after the page has loaded: initApp has opened the database *)

\* what showNotification displays
Notice(message, type, extracted) ==
    [kind |-> "notification", message |-> message, type |-> type,
     extracted |-> extracted]

\* what a direct call of `op` returns
Returned(op, val) == [kind |-> "return", op |-> op, val |-> val]

Init ==
    /\ currentSession = NULL
    /\ sessions = EmptyStore
    /\ locations = EmptyStore
    /\ plotThreads = EmptyStore
    /\ idCounter = 0
    /\ pending = <<>>
    /\ output = Notice("", "info", <<>>)

-----------------------------------------------------------------------------
(* app.js: the handlers *)

\* the click on 'createSession'
HandleCreateSession ==
    \E titleIn \in TitleInputs, date \in DateInputs,
       tagsInput \in TagInputs, transcriptIn \in TranscriptInputs :
        LET title == trim(titleIn)
            transcript == trim(transcriptIn)
        IN  IF title = <<>> \/ transcript = <<>>
            THEN /\ output' = Notice("Please fill in all fields", "error", <<>>)
                 /\ UNCHANGED <<currentSession, sessions, locations, plotThreads,
                                idCounter, pending>>
            ELSE /\ idCounter < MaxSessions
                 /\ LET tags == parseTags(tagsInput)
                        session == createSession(generateId(idCounter), title, date,
                                                 transcript, tags)
                    IN  /\ sessions' = saveSession(sessions, session)
                        /\ currentSession' = session
                 /\ idCounter' = idCounter + 1
                 /\ UNCHANGED pending
                 /\ output' = Notice("Session created", "success", <<>>)
                 /\ UNCHANGED <<locations, plotThreads>>

\* window.openSession(id), from a card of the session list
OpenSession ==
    \E id \in DOMAIN sessions :
        /\ currentSession' = getSession(sessions, id)
        /\ UNCHANGED <<sessions, locations, plotThreads, idCounter, output, pending>>

\* backToList, and switchTab which it calls
BackToList ==
    /\ currentSession # NULL
    /\ currentSession' = NULL
    /\ UNCHANGED <<sessions, locations, plotThreads, idCounter, output, pending>>

\* the click on 'deleteBtn' also taking the session out of the entities that
\* list it
DeleteCurrentSession_Cascade ==
    /\ currentSession # NULL
    /\ sessions' = deleteSession(sessions, currentSession.id)
    /\ output' = Notice("Session deleted", "success", <<>>)
    /\ currentSession' = NULL
    /\ locations' =
          [k \in DOMAIN locations |->
              [locations[k] EXCEPT
                  !.sessions = SelectSeq(@, LAMBDA ref : ref.id # currentSession.id)]]
    /\ plotThreads' =
          [k \in DOMAIN plotThreads |->
              [plotThreads[k] EXCEPT
                  !.sessions = SelectSeq(@, LAMBDA ref : ref.id # currentSession.id)]]
    /\ UNCHANGED <<idCounter, pending>>

\* the click on 'deleteBtn', confirmed
DeleteCurrentSession ==
    /\ currentSession # NULL
    /\ sessions' = deleteSession(sessions, currentSession.id)
    /\ output' = Notice("Session deleted", "success", <<>>)
    /\ currentSession' = NULL
    /\ UNCHANGED <<locations, plotThreads, idCounter, pending>>

\* window.saveResponse without the return after the validation error
SaveResponseWith_NoReturn(response) ==
    /\ currentSession # NULL
    /\ LET updated == updatePhaseResponse(currentSession, response)
           advanced == advancePhase(updated)
       IN  /\ currentSession' = advanced
           /\ sessions' = saveSession(sessions, advanced)
           /\ IF isSessionComplete(advanced)
              THEN LET extracted ==
                           extractAndSaveFromSession(advanced, locations, plotThreads)
                   IN  /\ locations' = extracted.locationStore
                       /\ plotThreads' = extracted.threadStore
                       /\ output' =
                            Notice("Session processing complete!", "success",
                                   IF extracted.locations + extracted.threads > 0
                                   THEN <<extracted.locations, extracted.threads>>
                                   ELSE <<>>)
              ELSE /\ output' = Notice("Phase completed", "success", <<>>)
                   /\ UNCHANGED <<locations, plotThreads>>
    /\ UNCHANGED <<idCounter, pending>>

\* window.saveResponse with `response` in the textarea
SaveResponseWith(response) ==
    /\ currentSession # NULL
    /\ LET updated == updatePhaseResponse(currentSession, response)
           validation == validatePhase(updated)
       IN  IF ~validation.valid
           THEN /\ currentSession' = updated
                /\ output' = Notice(validation.error, "error", <<>>)
                /\ UNCHANGED <<sessions, locations, plotThreads>>
           ELSE LET advanced == advancePhase(updated)
                IN  /\ currentSession' = advanced
                    /\ sessions' = saveSession(sessions, advanced)
                    /\ IF isSessionComplete(advanced)
                       THEN LET extracted ==
                                    extractAndSaveFromSession(advanced, locations,
                                                              plotThreads)
                            IN  /\ locations' = extracted.locationStore
                                /\ plotThreads' = extracted.threadStore
                                /\ output' =
                                     Notice("Session processing complete!", "success",
                                            IF extracted.locations + extracted.threads > 0
                                            THEN <<extracted.locations, extracted.threads>>
                                            ELSE <<>>)
                       ELSE /\ output' = Notice("Phase completed", "success", <<>>)
                            /\ UNCHANGED <<locations, plotThreads>>
    /\ UNCHANGED <<idCounter, pending>>

SaveResponse == \E response \in Responses : SaveResponseWith(response)

-----------------------------------------------------------------------------
(* workflow.js called directly on the open session, as its tests do *)

UpdatePhaseResponseWith(response) ==
    /\ currentSession # NULL
    /\ currentSession' = updatePhaseResponse(currentSession, response)
    /\ output' = Returned("updatePhaseResponse", NULL)
    /\ UNCHANGED <<sessions, locations, plotThreads, idCounter, pending>>

UpdatePhaseResponse == \E response \in Responses : UpdatePhaseResponseWith(response)

ValidatePhase ==
    /\ currentSession # NULL
    /\ output' = Returned("validatePhase", validatePhase(currentSession))
    /\ UNCHANGED <<currentSession, sessions, locations, plotThreads, idCounter, pending>>

\* generatePrompt keeping the text in the prompt field of the phase
GeneratePrompt_Storing ==
    /\ currentSession # NULL
    /\ output' = Returned("generatePrompt", generatePrompt(currentSession))
    /\ currentSession' =
          [currentSession EXCEPT
              !.phases[currentSession.currentPhase].prompt =
                  generatePrompt(currentSession)]
    /\ UNCHANGED <<sessions, locations, plotThreads, idCounter, pending>>

GeneratePrompt ==
    /\ currentSession # NULL
    /\ output' = Returned("generatePrompt", generatePrompt(currentSession))
    /\ UNCHANGED <<currentSession, sessions, locations, plotThreads, idCounter, pending>>

AdvancePhase ==
    /\ currentSession # NULL
    /\ currentSession' = advancePhase(currentSession)
    /\ output' = Returned("advancePhase", NULL)
    /\ UNCHANGED <<sessions, locations, plotThreads, idCounter, pending>>

IsSessionComplete ==
    /\ currentSession # NULL
    /\ output' = Returned("isSessionComplete", isSessionComplete(currentSession))
    /\ UNCHANGED <<currentSession, sessions, locations, plotThreads, idCounter, pending>>

GetProgress ==
    /\ currentSession # NULL
    /\ output' = Returned("getProgress", getProgress(currentSession))
    /\ UNCHANGED <<currentSession, sessions, locations, plotThreads, idCounter, pending>>

\* createSession(title, date, transcript, ...rest): rest is <<>> when the
\* caller leaves tags out, <<tags>> when it passes them
CreateSessionWith(title, date, transcript, rest) ==
    /\ idCounter <= MaxSessions
    /\ LET tags == IF Len(rest) = 0 THEN DefaultTags ELSE rest[1]
           session == createSession(generateId(idCounter), title, date,
                                    transcript, tags)
       IN  /\ currentSession' = session
           /\ output' = Returned("createSession", session)
    /\ idCounter' = idCounter + 1
    /\ UNCHANGED pending
    /\ UNCHANGED <<sessions, locations, plotThreads>>

CreateSession ==
    \E title \in TitleInputs, date \in DateInputs,
       transcript \in TranscriptInputs, rest \in TagArguments :
        CreateSessionWith(title, date, transcript, rest)

\* the session with this id once its three phases are completed, with
\* `response` as the final text of phase 3
completedSession(id, response) ==
    LET created == createSession(id, <<"S", Digits[id]>>, <<"2","0","2","4">>,
                                 <<"t","x","t">>, <<>>)
    IN  [created EXCEPT
            !.currentPhase = Len(PHASES),
            !.phases = [i \in DOMAIN PHASES |->
                           [@[i] EXCEPT !.completed = TRUE,
                                        !.response = IF i = Len(PHASES)
                                                     THEN response ELSE Plain]]]

\* extractAndSaveFromSession(currentSession), one invocation from its first
\* line to its return, for the completed session that is open
ExtractAndSaveWith(id, response) ==
    LET session == completedSession(id, response)
        extracted == extractAndSaveFromSession(session, locations, plotThreads)
    IN  /\ currentSession' = session
        /\ locations' = extracted.locationStore
        /\ plotThreads' = extracted.threadStore
        /\ output' = Returned("extractAndSaveFromSession",
                              [locations |-> extracted.locations,
                               threads |-> extracted.threads])
        /\ UNCHANGED <<sessions, idCounter, pending>>

ExtractAndSave ==
    \E id \in 1..MaxMergeSessions, response \in MergeResponses :
        ExtractAndSaveWith(id, response)

\* what is typed in the tags field: nothing, a tag twice, a tag in two
\* cases, a tag with and without blanks around it, and the text of TagInputs
TagStrings ==
    {<<>>,
     <<"a",",","a">>,
     <<"a",","," ","A">>,
     <<" ","b"," ",",",",","b">>,
     <<"A",","," ","b",",">>}

\* parseTags(tagString)
ParseTags ==
    \E tagString \in TagStrings :
        /\ output' = Returned("parseTags",
                              [tagString |-> tagString,
                               tags |-> parseTags(tagString)])
        /\ UNCHANGED <<currentSession, sessions, locations, plotThreads,
                       idCounter, pending>>

-----------------------------------------------------------------------------
(* Specifications *)

\* the handlers of the page, and the exported functions of workflow.js that
\* read or write a session called directly on the open one, in any order
Next ==
    \/ HandleCreateSession
    \/ OpenSession
    \/ BackToList
    \/ DeleteCurrentSession
    \/ SaveResponse
    \/ UpdatePhaseResponse
    \/ ValidatePhase
    \/ GeneratePrompt
    \/ AdvancePhase

Spec == Init /\ [][Next]_vars

\* workflow.js on a session in any condition, as its tests set one up by
\* assigning to the fields of a new session
PureSessions ==
    {[[createSession(1, <<"S","1">>, <<"2","0","2","4">>, <<"t","x","t">>, <<>>)
        EXCEPT !.currentPhase = cp]
        EXCEPT !.phases = [i \in DOMAIN PHASES |->
                              [@[i] EXCEPT !.completed = done[i],
                                           !.response = IF i = cp THEN r ELSE other]]] :
        cp \in DOMAIN PHASES, done \in [DOMAIN PHASES -> BOOLEAN],
        r \in TestResponses, other \in {<<>>, Plain}}

PureInit ==
    /\ currentSession \in PureSessions
    /\ sessions = EmptyStore
    /\ locations = EmptyStore
    /\ plotThreads = EmptyStore
    /\ idCounter = 1
    /\ pending = <<>>
    /\ output = Notice("", "info", <<>>)

PureNext ==
    \/ CreateSession
    \/ ValidatePhase
    \/ IsSessionComplete
    \/ GetProgress
    \/ ParseTags

PureSpec == PureInit /\ [][PureNext]_vars

\* extractAndSaveFromSession invoked for completed sessions, one invocation
\* after the other, on stores that start empty
MergeNext == ExtractAndSave

MergeSpec == Init /\ [][MergeNext]_vars

-----------------------------------------------------------------------------
(* Properties *)

\* the length of s without its leading and trailing white space, counted
\* from the positions of its other characters
TrimmedLength(s) ==
    LET solid == {i \in DOMAIN s : s[i] \notin WhiteSpace}
    IN  IF solid = {} THEN 0 ELSE Max(solid) - Min(solid) + 1

Open == currentSession # NULL

Completed(session, i) == session.phases[i].completed

AllCompleted(session) ==
    Completed(session, 1) /\ Completed(session, 2) /\ Completed(session, 3)

CompletedCount(session) ==
    (IF Completed(session, 1) THEN 1 ELSE 0)
        + (IF Completed(session, 2) THEN 1 ELSE 0)
        + (IF Completed(session, 3) THEN 1 ELSE 0)

\* a step of one of the operations that act on the open session
SessionOperation ==
    \/ UpdatePhaseResponse
    \/ ValidatePhase
    \/ GeneratePrompt
    \/ AdvancePhase
    \/ SaveResponse

\* C1: whatever is called on a session, and in whatever order, its
\* currentPhase is 1, 2 or 3 (in memory and as stored), and advancePhase
\* called at phase 3 leaves it at 3.
C1_CurrentPhaseInRange ==
    /\ Open =>
        /\ currentSession.currentPhase \in {1, 2, 3}
        /\ currentSession.currentPhase = 3 =>
                advancePhase(currentSession).currentPhase = 3
    /\ \A id \in DOMAIN sessions : sessions[id].currentPhase \in {1, 2, 3}

\* advancePhase has been called on a session whose third phase was already
\* completed, and the session is still at phase 3
C1_Witness ==
    /\ Open
    /\ output = Returned("advancePhase", NULL)
    /\ currentSession.currentPhase = 3
    /\ AllCompleted(currentSession)

\* C2 as stated: whenever a phase of the open session becomes completed, its
\* response is one validatePhase accepts (trimmed length >= 100).
C2_MarkedOnlyWhenValid ==
    [][SessionOperation =>
        \A i \in {1, 2, 3} :
            (~Completed(currentSession, i) /\ Completed(currentSession', i)) =>
                TrimmedLength(currentSession'.phases[i].response) >= 100]_vars

\* C2 amended: whenever saveResponse makes a phase completed, the response
\* of that phase is one validatePhase accepts (trimmed length >= 100); a
\* direct call of advancePhase marks the phase whatever its response is.
C2_SavedOnlyWhenValid ==
    [][SaveResponse =>
        \A i \in {1, 2, 3} :
            (~Completed(currentSession, i) /\ Completed(currentSession', i)) =>
                TrimmedLength(currentSession'.phases[i].response) >= 100]_vars

\* saveResponse has completed the whole session, so that it has marked a phase
C2_Witness ==
    /\ Open
    /\ output.kind = "notification"
    /\ output.message = "Session processing complete!"
    /\ AllCompleted(currentSession)
    /\ TrimmedLength(currentSession.phases[3].response) >= 100

\* C3: a saveResponse whose text validatePhase rejects (empty, white space
\* only, or shorter than 100 once trimmed) marks no phase completed, does not
\* advance currentPhase, leaves the stored session records as they were and
\* writes nothing to the location and plot-thread stores.
C3_RejectedSaveChangesNothing ==
    [][\A response \in Responses :
        (SaveResponseWith(response) /\ TrimmedLength(response) < 100) =>
            /\ \A i \in {1, 2, 3} :
                   Completed(currentSession', i) = Completed(currentSession, i)
            /\ currentSession'.currentPhase = currentSession.currentPhase
            /\ sessions' = sessions
            /\ locations' = locations
            /\ plotThreads' = plotThreads]_vars

\* a text that is long enough only when untrimmed has been rejected, and the
\* stored record still has the response it had
C3_Witness ==
    /\ Open
    /\ output = Notice("Response seems too short. Please check the AI output.",
                       "error", <<>>)
    /\ currentSession.phases[currentSession.currentPhase].response = Short
    /\ currentSession.id \in DOMAIN sessions
    /\ sessions[currentSession.id].phases[currentSession.currentPhase].response
           # Short

\* C4: no updatePhaseResponse, validatePhase, generatePrompt, advancePhase or
\* saveResponse turns a completed flag of the session from true to false.
C4_CompletedNeverReverts ==
    [][SessionOperation =>
        \A i \in {1, 2, 3} :
            Completed(currentSession, i) => Completed(currentSession', i)]_vars

\* the response of a completed phase has been overwritten
C4_Witness ==
    /\ Open
    /\ output = Returned("updatePhaseResponse", NULL)
    /\ Completed(currentSession, currentSession.currentPhase)

\* C5: currentPhase is 1 when the session is created, no operation on the
\* session lowers it, one advancePhase or saveResponse raises it by at most
\* 1, and the stored currentPhase of a session never goes down.
C5_CurrentPhaseMonotonic ==
    [][/\ SessionOperation =>
            /\ currentSession'.currentPhase >= currentSession.currentPhase
            /\ currentSession'.currentPhase <= currentSession.currentPhase + 1
       /\ idCounter' # idCounter => currentSession'.currentPhase = 1
       /\ \A id \in DOMAIN sessions \cap DOMAIN sessions' :
            sessions'[id].currentPhase >= sessions[id].currentPhase]_vars

\* advancePhase has taken the session to phase 2
C5_Witness ==
    /\ Open
    /\ output = Returned("advancePhase", NULL)
    /\ currentSession.currentPhase = 2

\* C6: advancePhase sets completed on the phase at currentPhase whatever its
\* response is, raises currentPhase by exactly 1 when it was below 3 and
\* leaves it when it was 3, and changes no other completed flag and no
\* response; on a phase already completed the flag stays true.
C6_AdvancePhaseEffect ==
    [][AdvancePhase =>
        LET n == currentSession.currentPhase
        IN  /\ Completed(currentSession', n)
            /\ n < 3 => currentSession'.currentPhase = n + 1
            /\ n = 3 => currentSession'.currentPhase = 3
            /\ \A i \in {1, 2, 3} \ {n} :
                   Completed(currentSession', i) = Completed(currentSession, i)
            /\ \A i \in {1, 2, 3} :
                   currentSession'.phases[i].response
                       = currentSession.phases[i].response]_vars

\* advancePhase has completed a phase whose response is empty
C6_Witness ==
    /\ Open
    /\ output = Returned("advancePhase", NULL)
    /\ currentSession.currentPhase = 2
    /\ Completed(currentSession, 1)
    /\ currentSession.phases[1].response = <<>>

\* C7: validatePhase answers for the response of the phase at currentPhase:
\* invalid, 'Please paste the AI response', when it is empty or white space
\* only; invalid, 'Response seems too short...', when its trimmed length is
\* 1..99; valid when it is 100 or more.
C7_ValidatePhaseResult ==
    (Open /\ output.kind = "return" /\ output.op = "validatePhase") =>
        LET n == TrimmedLength(
                     currentSession.phases[currentSession.currentPhase].response)
        IN  /\ n = 0 =>
                output.val = [valid |-> FALSE,
                              error |-> "Please paste the AI response"]
            /\ (1 <= n /\ n <= 99) =>
                output.val = [valid |-> FALSE,
                              error |-> "Response seems too short. Please check the AI output."]
            /\ n >= 100 => output.val.valid

\* a padded response of exactly 100 characters once trimmed has been accepted
C7_Witness ==
    /\ Open
    /\ output.kind = "return"
    /\ output.op = "validatePhase"
    /\ output.val.valid
    /\ TrimmedLength(currentSession.phases[currentSession.currentPhase].response) = 100
    /\ Len(currentSession.phases[currentSession.currentPhase].response) > 100

\* C8: once the three phases are completed, updatePhaseResponse, advancePhase
\* and saveResponse leave isSessionComplete true and currentPhase at 3.
C8_TerminalAbsorbing ==
    [][((UpdatePhaseResponse \/ AdvancePhase \/ SaveResponse)
            /\ AllCompleted(currentSession)) =>
        /\ isSessionComplete(currentSession')
        /\ AllCompleted(currentSession')
        /\ currentSession'.currentPhase = 3]_vars

\* a completed session has been saved again with a new phase-3 response
C8_Witness ==
    /\ Open
    /\ AllCompleted(currentSession)
    /\ output.kind = "notification"
    /\ output.message = "Session processing complete!"
    /\ output.extracted = <<>>
    /\ DOMAIN locations # {}

\* C9: isSessionComplete is true exactly when the three phase records all
\* have completed = true; so it is false for a session just created.
C9_IsSessionCompleteIffAll ==
    (Open /\ output.kind = "return" /\ output.op = "isSessionComplete") =>
        output.val = AllCompleted(currentSession)

\* isSessionComplete has answered true
C9_Witness ==
    /\ Open
    /\ output = Returned("isSessionComplete", TRUE)
    /\ AllCompleted(currentSession)

\* C10: getProgress is 0, 33, 67, 100 for 0, 1, 2, 3 completed phases,
\* whichever they are and whatever currentPhase is.
C10_GetProgressRounds ==
    (Open /\ output.kind = "return" /\ output.op = "getProgress") =>
        output.val = <<0, 33, 67, 100>>[CompletedCount(currentSession) + 1]

\* getProgress has answered 67 for a session at phase 1 whose first and third
\* phases are the completed ones
C10_Witness ==
    /\ Open
    /\ output = Returned("getProgress", 67)
    /\ currentSession.currentPhase = 1
    /\ Completed(currentSession, 1)
    /\ ~Completed(currentSession, 2)
    /\ Completed(currentSession, 3)

\* C11: createSession returns a session at currentPhase 1 with exactly three
\* phase records, the i-th being phase i of PHASES (Extract, Summarize,
\* Refine), each not completed and with empty prompt and response; title,
\* date and transcript are the arguments, and tags is the empty sequence when
\* the caller passes none.
C11_CreateSessionResult ==
    [][\A title \in TitleInputs, date \in DateInputs,
          transcript \in TranscriptInputs, rest \in TagArguments :
        CreateSessionWith(title, date, transcript, rest) =>
            /\ output'.val = currentSession'
            /\ currentSession'.currentPhase = 1
            /\ Len(currentSession'.phases) = 3
            /\ \A i \in {1, 2, 3} :
                   /\ currentSession'.phases[i].number = i
                   /\ currentSession'.phases[i].name
                          = <<"Extract", "Summarize", "Refine">>[i]
                   /\ currentSession'.phases[i].name = PHASES[i].name
                   /\ currentSession'.phases[i].ai = PHASES[i].ai
                   /\ currentSession'.phases[i].completed = FALSE
                   /\ currentSession'.phases[i].prompt = <<>>
                   /\ currentSession'.phases[i].response = <<>>
            /\ currentSession'.title = title
            /\ currentSession'.date = date
            /\ currentSession'.transcript = transcript
            /\ rest = <<>> => currentSession'.tags = <<>>
            /\ rest # <<>> => currentSession'.tags = rest[1]]_vars

\* createSession has been called without tags
C11_Witness ==
    /\ Open
    /\ output.kind = "return"
    /\ output.op = "createSession"
    /\ output.val.tags = <<>>
    /\ output.val.phases[3].name = "Refine"
    /\ output.val.title # <<>>
\* pat occurs in s as a run of consecutive characters
Contains(s, pat) ==
    \E i \in 1..(Len(s) - Len(pat) + 1) : SubSeq(s, i, i + Len(pat) - 1) = pat

\* C12: generatePrompt returns the prompt of the phase at currentPhase: at
\* phase 1 it has the session title after the session heading and the
\* transcript under the transcript heading; at phase 2 it has the response
\* the session holds for phase 1 under the extraction heading; at phase 3 it
\* has the response the session holds for phase 2 under the content heading.
C12_GeneratePromptEmbeds ==
    [][GeneratePrompt =>
        LET prompt == output'.val
            n == currentSession.currentPhase
        IN  /\ n = 1 =>
                /\ Contains(prompt, P1_HEAD \o currentSession.title \o P_DATE)
                /\ Contains(prompt, P1_TRANSCRIPT \o currentSession.transcript
                                        \o P1_FORMAT)
            /\ n = 2 =>
                /\ Contains(prompt, P2_HEAD)
                /\ Contains(prompt, P2_EXTRACTION
                                        \o currentSession.phases[1].response
                                        \o P2_FORMAT)
            /\ n = 3 =>
                /\ Contains(prompt, P3_HEAD)
                /\ Contains(prompt, P3_CONTENT
                                        \o currentSession.phases[2].response
                                        \o P3_TASK)]_vars

\* the prompt of phase 3 has been generated for a session whose phase-2
\* response is a document, after the prompt heading of phase 3
C12_Witness ==
    /\ Open
    /\ output.kind = "return"
    /\ output.op = "generatePrompt"
    /\ currentSession.currentPhase = 3
    /\ currentSession.phases[2].response = DocA
    /\ currentSession.phases[1].response # DocA
    /\ Contains(output.val, P3_CONTENT \o DocA \o P3_TASK)
-----------------------------------------------------------------------------
(* Properties of the merge, under MergeSpec: every step is one invocation of *)
(* extractAndSaveFromSession, for the session currentSession' holds          *)

MergeStep ==
    /\ currentSession' # NULL
    /\ output'.kind = "return"
    /\ output'.op = "extractAndSaveFromSession"

SessionRef(session) ==
    [id |-> session.id, title |-> session.title, date |-> session.date]

SameName(a, b) == toLowerCase(a) = toLowerCase(b)

\* the session ids of the references of an entity, in order
SessionIds(entity) == [i \in DOMAIN entity.sessions |-> entity.sessions[i].id]

Lists(entity, sessionId) ==
    \E i \in DOMAIN entity.sessions : entity.sessions[i].id = sessionId

\* the pages of a parsed document that carry this name, whatever the case
PagesOf(parsed, name) == {k \in DOMAIN parsed : SameName(parsed[k].name, name)}

\* what the document of the merged session has for each kind
MergedLocations ==
    parseLocations(currentSession'.phases[3].response, currentSession'.id,
                   currentSession'.title, currentSession'.date, 1)

MergedThreads ==
    parsePlotThreads(currentSession'.phases[3].response, currentSession'.id,
                     currentSession'.title, currentSession'.date, 1)

\* the store has exactly one entity of this name
OneOfName(store, name) ==
    Cardinality({j \in DOMAIN store : SameName(store[j].name, name)}) = 1

\* how the merge of `parsed` for the session `ref` takes the stored entity
\* `id`, which `ref` is not yet listed in, from `before` to `after`
AppendedTo(before, after, id, parsed, ref) ==
    LET pages == PagesOf(parsed, before[id].name)
    IN  (pages # {} /\ ~Lists(before[id], ref.id)) =>
            /\ id \in DOMAIN after
            /\ after[id].sessions = Append(before[id].sessions, ref)
            /\ after[id].rawContent
                   = before[id].rawContent \o BLOCK_DELIMITER
                        \o parsed[Min(pages)].rawContent
            /\ OneOfName(after, before[id].name)

\* a record the invocation has created: the page as parsed, for `ref` alone
CreatedFrom(after, id, parsed, ref) ==
    /\ after[id].sessions = <<ref>>
    /\ \E k \in PagesOf(parsed, after[id].name) :
           after[id].rawContent = parsed[k].rawContent

\* C13: when a session merges an entity whose name is stored from another
\* session, there is still one stored entity of that name, its sessions are
\* the ones it had followed by the merging session, its rawContent is the
\* text it had, the block delimiter, then the text of the new page, and the
\* invocation counts as created only the records it has added; a record it
\* adds has the one session and the text of its page.
C13_SecondSessionAppends ==
    [][MergeStep =>
        LET ref == SessionRef(currentSession')
        IN  /\ \A id \in DOMAIN locations :
                   AppendedTo(locations, locations', id, MergedLocations, ref)
            /\ \A id \in DOMAIN plotThreads :
                   AppendedTo(plotThreads, plotThreads', id, MergedThreads, ref)
            /\ \A id \in DOMAIN locations' \ DOMAIN locations :
                   CreatedFrom(locations', id, MergedLocations, ref)
            /\ \A id \in DOMAIN plotThreads' \ DOMAIN plotThreads :
                   CreatedFrom(plotThreads', id, MergedThreads, ref)
            /\ output'.val.locations
                   = Cardinality(DOMAIN locations' \ DOMAIN locations)
            /\ output'.val.threads
                   = Cardinality(DOMAIN plotThreads' \ DOMAIN plotThreads)]_vars

\* session 2 has merged its page of the Location session 1 created: one
\* record of that name, both sessions in order, both texts around the
\* delimiter, and no Plot Thread counted as created
C13_Witness ==
    /\ Open
    /\ currentSession.id = 2
    /\ output = Returned("extractAndSaveFromSession",
                         [locations |-> 1, threads |-> 0])
    /\ \E id \in DOMAIN locations :
           /\ locations[id].name = Inn
           /\ SessionIds(locations[id]) = <<1, 2>>
           /\ locations[id].rawContent
                  = LocationBlock(Inn, Town, North, Cult) \o BLOCK_DELIMITER
                       \o LocationStub(INN, Keep, <<>>)
           /\ OneOfName(locations, INN)
\* the ids in a sequence of ids
Range(seq) == {seq[i] : i \in DOMAIN seq}

\* the pages with the ids they have when `store` is the store they go to
Numbered(store, pages) ==
    [k \in DOMAIN pages |-> [pages[k] EXCEPT !.id = freshId(store) + k - 1]]

\* the loop over the Location pages run for `session` on `store`, and the
\* loop over the Plot Thread pages
LocationPass(store, pages, session) ==
    mergeLocations([store |-> store, saved |-> 0, puts |-> <<>>],
                   Numbered(store, pages), SessionRef(session))

ThreadPass(store, pages, session) ==
    mergePlotThreads([store |-> store, saved |-> 0, puts |-> <<>>],
                     Numbered(store, pages), SessionRef(session))

\* the merge of `parsed` for the session `sessionId` leaves alone the stored
\* entity `id` that already lists the session, and saves nothing for it
LeftAlone(before, after, puts, id, parsed, sessionId) ==
    (PagesOf(parsed, before[id].name) # {} /\ Lists(before[id], sessionId)) =>
        /\ id \in DOMAIN after
        /\ after[id] = before[id]
        /\ id \notin Range(puts)

\* C14: when the document of a session names a stored entity that already
\* lists the session, the invocation leaves the record as it was (sessions,
\* rawContent and status included), calls no save for it and does not count
\* it; when that is so of every page of the document, it returns 0 and 0
\* and writes nothing.
C14_RemergeLeavesEntity ==
    [][MergeStep =>
        \A pages \in {MergedLocations}, threadPages \in {MergedThreads} :
        \A locationPuts \in {LocationPass(locations, pages, currentSession').puts},
           threadPuts \in {ThreadPass(plotThreads, threadPages, currentSession').puts} :
        LET sessionId == currentSession'.id
            known(store, parsed) ==
                \A k \in DOMAIN parsed :
                    \E id \in DOMAIN store :
                        /\ SameName(store[id].name, parsed[k].name)
                        /\ Lists(store[id], sessionId)
        IN  /\ \A id \in DOMAIN locations :
                   LeftAlone(locations, locations', locationPuts, id, pages,
                             sessionId)
            /\ \A id \in DOMAIN plotThreads :
                   LeftAlone(plotThreads, plotThreads', threadPuts, id,
                             threadPages, sessionId)
            /\ known(locations, pages) =>
                   /\ locations' = locations
                   /\ locationPuts = <<>>
                   /\ output'.val.locations = 0
            /\ known(plotThreads, threadPages) =>
                   /\ plotThreads' = plotThreads
                   /\ threadPuts = <<>>
                   /\ output'.val.threads = 0]_vars

\* session 1 has merged a second document: the Location and the Plot Thread
\* it had created are as they were, the Location only the second document
\* has is the one record counted
C14_Witness ==
    /\ Open
    /\ currentSession.id = 1
    /\ currentSession.phases[3].response = DocD
    /\ output = Returned("extractAndSaveFromSession",
                         [locations |-> 1, threads |-> 0])
    /\ \E id \in DOMAIN locations :
           /\ locations[id].name = Inn
           /\ SessionIds(locations[id]) = <<1>>
           /\ locations[id].rawContent = LocationBlock(Inn, Town, North, Cult)
    /\ \E id \in DOMAIN plotThreads :
           /\ plotThreads[id].name = Inn
           /\ SessionIds(plotThreads[id]) = <<1>>
           /\ plotThreads[id].status = Active
\* no session id is listed twice in the sessions of an entity of the store
ListedOnce(store) ==
    \A id \in DOMAIN store :
        \A i, j \in DOMAIN store[id].sessions :
            store[id].sessions[i].id = store[id].sessions[j].id => i = j

\* every entity of `before` is in `after`, its sessions extended at the end
OnlyAppended(before, after) ==
    \A id \in DOMAIN before :
        /\ id \in DOMAIN after
        /\ Len(after[id].sessions) >= Len(before[id].sessions)
        /\ SubSeq(after[id].sessions, 1, Len(before[id].sessions))
               = before[id].sessions

\* C15: after any sequence of invocations no stored Location or Plot Thread
\* lists a session id twice, and an invocation leaves the references an
\* entity had where they were, adding new ones only after them.
C15_SessionsAppendOnly ==
    /\ [](ListedOnce(locations) /\ ListedOnce(plotThreads))
    /\ [][/\ OnlyAppended(locations, locations')
          /\ OnlyAppended(plotThreads, plotThreads')]_vars

\* session 2 merged first and session 1 after it, then session 2 again with
\* another document: the Plot Thread lists 2 then 1, each once
C15_Witness ==
    /\ Open
    /\ currentSession.id = 2
    /\ currentSession.phases[3].response = DocC
    /\ \E id \in DOMAIN plotThreads :
           /\ SessionIds(plotThreads[id]) = <<2, 1>>
           /\ plotThreads[id].name = INN
    /\ \E id \in DOMAIN locations : SessionIds(locations[id]) = <<2, 1>>
\* C16: when a session merges a Plot Thread that is stored from other
\* sessions, the stored status becomes the status of the page the session
\* has for it, whatever it was, and the thread lists the sessions it listed
\* and the merging one.
C16_StatusLatestWins ==
    [][MergeStep =>
        \A id \in DOMAIN plotThreads :
            LET pages == PagesOf(MergedThreads, plotThreads[id].name)
            IN  (pages # {} /\ ~Lists(plotThreads[id], currentSession'.id)) =>
                    /\ id \in DOMAIN plotThreads'
                    /\ plotThreads'[id].status = MergedThreads[Min(pages)].status
                    /\ Lists(plotThreads'[id], currentSession'.id)
                    /\ \A i \in DOMAIN plotThreads[id].sessions :
                           Lists(plotThreads'[id], plotThreads[id].sessions[i].id)]_vars

\* the Plot Thread session 1 stored as Active has been merged from session 2
\* as Resolved
C16_Witness ==
    /\ Open
    /\ currentSession.id = 2
    /\ currentSession.phases[3].response = DocD
    /\ \E id \in DOMAIN plotThreads :
           /\ plotThreads[id].rawContent
                  = PlotThreadBlock(Inn, Active, High, Inn) \o BLOCK_DELIMITER
                       \o PlotThreadStub(INN, Resolved, Low)
           /\ plotThreads[id].status = Resolved
           /\ SessionIds(plotThreads[id]) = <<1, 2>>
\* no two records of the store have the same name, whatever the case
UniqueNames(store) ==
    \A i, j \in DOMAIN store :
        SameName(store[i].name, store[j].name) => i = j

\* C17: after any sequence of invocations on stores that start empty, no two
\* stored Locations have the same name up to case, and no two stored Plot
\* Threads have, also when a document has several pages of one name or of
\* names that differ in case only.
C17_NamesUnique ==
    UniqueNames(locations) /\ UniqueNames(plotThreads)

\* a document with three Location pages, two of them of one name in two
\* cases, and two Plot Thread pages of that name has been merged into empty
\* stores: two Locations and one Plot Thread are stored
C17_Witness ==
    /\ Open
    /\ currentSession.phases[3].response = DocD
    /\ output = Returned("extractAndSaveFromSession",
                         [locations |-> 2, threads |-> 1])
    /\ Cardinality(DOMAIN locations) = 2
    /\ Cardinality(DOMAIN plotThreads) = 1
    /\ \E id \in DOMAIN locations :
           /\ locations[id].name = INN
           /\ locations[id].rawContent = LocationStub(INN, Keep, <<>>)
    /\ \E id \in DOMAIN plotThreads :
           plotThreads[id].rawContent = PlotThreadStub(INN, Resolved, Low)
\* the pages of `parsed` whose name no record of `store` and no page before
\* them has: the ones the lookup finds nothing for
AbsentPages(store, parsed) ==
    {k \in DOMAIN parsed :
        /\ \A id \in DOMAIN store : ~SameName(store[id].name, parsed[k].name)
        /\ \A h \in 1..(k - 1) : ~SameName(parsed[h].name, parsed[k].name)}

\* C18: an invocation returns, for Locations and for Plot Threads, the
\* number of pages of the document whose name was not stored when they were
\* looked up, which is the number of records it has added; pages merged into
\* a stored record or skipped for a session already listed are not counted.
C18_CountsCreatedOnly ==
    [][MergeStep =>
        /\ output'.val.locations
               = Cardinality(AbsentPages(locations, MergedLocations))
        /\ output'.val.threads
               = Cardinality(AbsentPages(plotThreads, MergedThreads))
        /\ Cardinality(DOMAIN locations')
               = Cardinality(DOMAIN locations) + output'.val.locations
        /\ Cardinality(DOMAIN plotThreads')
               = Cardinality(DOMAIN plotThreads) + output'.val.threads]_vars

\* of the three Location pages of a document one has been merged, one has
\* created a record and one has been skipped, and of its two Plot Thread
\* pages one has been merged and one skipped: 1 and 0 are returned
C18_Witness ==
    /\ Open
    /\ currentSession.id = 2
    /\ Len(parseLocations(currentSession.phases[3].response, currentSession.id,
                          currentSession.title, currentSession.date, 1)) = 3
    /\ Len(parsePlotThreads(currentSession.phases[3].response, currentSession.id,
                            currentSession.title, currentSession.date, 1)) = 2
    /\ output.kind = "return"
    /\ output.op = "extractAndSaveFromSession"
    /\ output.val = [locations |-> 1, threads |-> 0]
    /\ \E a, b \in DOMAIN locations :
           /\ SessionIds(locations[a]) = <<1, 2>>
           /\ SessionIds(locations[b]) = <<2>>
    /\ \E t \in DOMAIN plotThreads : SessionIds(plotThreads[t]) = <<1, 2>>
\* the records of `after` that are not as they are in `before`
Written(before, after) ==
    {id \in DOMAIN after : id \notin DOMAIN before \/ after[id] # before[id]}

\* C19: what an invocation does to the Locations, and the number of them it
\* returns, is what the loop over the Location pages does with the Location
\* store alone, and what it does to the Plot Threads is what the loop over
\* the Plot Thread pages does with the Plot Thread store alone; it writes a Location only for a
\* Location page and a Plot Thread only for a Plot Thread page, so that a
\* Location and a Plot Thread of one name are two records, one in each store.
C19_KindsIndependent ==
    [][MergeStep =>
        \A pages \in {MergedLocations}, threadPages \in {MergedThreads} :
        \A alone \in {LocationPass(locations, pages, currentSession')},
           apart \in {ThreadPass(plotThreads, threadPages, currentSession')} :
            /\ locations' = alone.store
            /\ output'.val.locations = alone.saved
            /\ plotThreads' = apart.store
            /\ output'.val.threads = apart.saved
            /\ \A id \in Written(locations, locations') :
                   PagesOf(pages, locations'[id].name) # {}
            /\ \A id \in Written(plotThreads, plotThreads') :
                   PagesOf(threadPages, plotThreads'[id].name) # {}
            /\ \A k \in DOMAIN pages : OneOfName(locations', pages[k].name)
            /\ \A k \in DOMAIN threadPages :
                   OneOfName(plotThreads', threadPages[k].name)]_vars

\* a Location and a Plot Thread of the same name are stored, each merged
\* from two sessions with the pages of its own kind
C19_Witness ==
    /\ Open
    /\ \E l \in DOMAIN locations, t \in DOMAIN plotThreads :
           /\ locations[l].name = plotThreads[t].name
           /\ "type" \in DOMAIN locations[l]
           /\ "status" \in DOMAIN plotThreads[t]
           /\ locations[l].rawContent
                  = LocationStub(INN, Keep, <<>>) \o BLOCK_DELIMITER
                       \o LocationBlock(Inn, Town, North, Cult)
           /\ plotThreads[t].rawContent
                  = PlotThreadStub(INN, Resolved, Low) \o BLOCK_DELIMITER
                       \o PlotThreadBlock(Inn, Active, High, Inn)
           /\ plotThreads[t].status = Active
\* the fields of a record other than the ones in `open` are as they were
Kept(before, after, open) ==
    /\ DOMAIN after = DOMAIN before
    /\ \A f \in DOMAIN before \ open : after[f] = before[f]

-----------------------------------------------------------------------------
\* C21: an invocation processes the pages in document order, and the status
\* a Plot Thread has when the invocation ends is the status of the last page
\* the document has for its name, also when several pages have the name; the
\* threads the session was already merged into are left aside.
C21_LastBlockWins ==
    [][MergeStep =>
        \A threadPages \in {MergedThreads} :
            \A id \in DOMAIN plotThreads' :
                LET pages == PagesOf(threadPages, plotThreads'[id].name)
                IN  (/\ pages # {}
                     /\ (id \in DOMAIN plotThreads =>
                            ~Lists(plotThreads[id], currentSession'.id)))
                        => plotThreads'[id].status
                               = threadPages[Max(pages)].status]_vars
-----------------------------------------------------------------------------
(* Storage calls that reject: a request of storage.js whose onerror fires    *)
(* rejects the promise the caller awaits. `fault` is the number of the       *)
(* storage call of one handler invocation that rejects, 0 when none does.    *)

\* the storage calls one invocation of saveResponse can get to reject
MaxFault == 9

\* what the operator has in the textarea when saving
FaultResponses == {Short, DocD}

\* an async function whose promise rejects with the error of the storage
\* call number `at` of the invocation, `calls` storage calls having been
\* issued by the invocation in all
Rejected(op, at, calls) ==
    [kind |-> "rejection", op |-> op, at |-> at, calls |-> calls]

\* one pass of a loop of extractAndSaveFromSession when the storage call
\* number `fault` rejects; acc is [store, saved, puts, calls, failed]: calls
\* counts the storage calls issued (a lookup for every page, a write where
\* the page is saved), failed says that the last one issued has rejected;
\* `pass` is what the pass gives when no call rejects
passOrReject(acc, pass, fault) ==
    LET lookup == acc.calls + 1
        writes == Len(pass.puts) > Len(acc.puts)
    IN  IF lookup = fault
        THEN [acc EXCEPT !.calls = lookup, !.failed = TRUE]
        ELSE IF writes /\ lookup + 1 = fault
        THEN [acc EXCEPT !.calls = lookup + 1, !.failed = TRUE]
        ELSE [store |-> pass.store, saved |-> pass.saved, puts |-> pass.puts,
              calls |-> IF writes THEN lookup + 1 ELSE lookup,
              failed |-> FALSE]

\* the loop over parsedLocations going on to the next page when a call has
\* rejected, and rejecting once the pages are done
RECURSIVE mergeLocationsOrReject_Continue(_, _, _, _)
mergeLocationsOrReject_Continue(acc, parsed, sessionRef, fault) ==
    IF parsed = <<>> THEN acc
    ELSE mergeLocationsOrReject_Continue(
             [passOrReject(acc,
                           mergeLocation([store |-> acc.store,
                                          saved |-> acc.saved,
                                          puts |-> acc.puts],
                                         Head(parsed), sessionRef),
                           fault)
                 EXCEPT !.failed = @ \/ acc.failed],
             Tail(parsed), sessionRef, fault)

\* the loop over parsedLocations when the storage call number `fault`
\* rejects: no pass follows the one in which a call has rejected
RECURSIVE mergeLocationsOrReject(_, _, _, _)
mergeLocationsOrReject(acc, parsed, sessionRef, fault) ==
    IF parsed = <<>> \/ acc.failed THEN acc
    ELSE mergeLocationsOrReject(
             passOrReject(acc,
                          mergeLocation([store |-> acc.store,
                                         saved |-> acc.saved,
                                         puts |-> acc.puts],
                                        Head(parsed), sessionRef),
                          fault),
             Tail(parsed), sessionRef, fault)

\* the loop over parsedThreads when the storage call number `fault` rejects
RECURSIVE mergePlotThreadsOrReject(_, _, _, _)
mergePlotThreadsOrReject(acc, parsed, sessionRef, fault) ==
    IF parsed = <<>> \/ acc.failed THEN acc
    ELSE mergePlotThreadsOrReject(
             passOrReject(acc,
                          mergePlotThread([store |-> acc.store,
                                           saved |-> acc.saved,
                                           puts |-> acc.puts],
                                          Head(parsed), sessionRef),
                          fault),
             Tail(parsed), sessionRef, fault)

\* what extractAndSaveFromSession leaves and returns, `l` being the end of
\* its loop over the Locations and `t` the end of its loop over the Threads
extractedOrRejected(l, t) ==
    [locationStore |-> l.store, threadStore |-> t.store,
     locations |-> l.saved, threads |-> t.saved,
     failed |-> t.failed, calls |-> t.calls]

\* the loop over parsedThreads after the loop over parsedLocations has ended
\* as `l`: it is not entered when a call of the first loop has rejected
threadsAfter(l, threads, parsedThreads, sessionRef, fault) ==
    extractedOrRejected(
        l,
        IF l.failed
        THEN [store |-> threads, saved |-> 0, puts |-> <<>>,
              calls |-> l.calls, failed |-> TRUE]
        ELSE mergePlotThreadsOrReject(
                 [store |-> threads, saved |-> 0, puts |-> <<>>,
                  calls |-> l.calls, failed |-> FALSE],
                 parsedThreads, sessionRef, fault))

\* extractAndSaveFromSession(session) when the storage call number `fault`
\* rejects, `made` storage calls having been issued before it is invoked:
\* the stores it leaves, whether it has rejected, and the calls issued
extractAndSaveOrReject(session, locs, threads, fault, made) ==
    LET phase3Response == session.phases[3].response
    IN  IF phase3Response = <<>>
        THEN [locationStore |-> locs, threadStore |-> threads,
              locations |-> 0, threads |-> 0, failed |-> FALSE, calls |-> made]
        ELSE LET sessionRef == [id |-> session.id, title |-> session.title,
                                date |-> session.date]
                 parsedLocations ==
                     parseLocations(phase3Response, session.id, session.title,
                                    session.date, freshId(locs))
                 parsedThreads ==
                     parsePlotThreads(phase3Response, session.id, session.title,
                                      session.date, freshId(threads))
             IN  threadsAfter(
                     mergeLocationsOrReject(
                         [store |-> locs, saved |-> 0, puts |-> <<>>,
                          calls |-> made, failed |-> FALSE],
                         parsedLocations, sessionRef, fault),
                     threads, parsedThreads, sessionRef, fault)

\* window.saveResponse going on to the extraction without awaiting
\* saveSession: its rejection is not seen
SaveResponseOrRejectWith_Unawaited(response, fault) ==
    /\ currentSession # NULL
    /\ LET updated == updatePhaseResponse(currentSession, response)
           validation == validatePhase(updated)
       IN  IF ~validation.valid
           THEN /\ currentSession' = updated
                /\ output' = Notice(validation.error, "error", <<>>)
                /\ UNCHANGED <<sessions, locations, plotThreads>>
           ELSE LET advanced == advancePhase(updated)
                IN  /\ currentSession' = advanced
                    /\ sessions' = IF fault = 1 THEN sessions
                                   ELSE saveSession(sessions, advanced)
                    /\ IF isSessionComplete(advanced)
                       THEN \E extracted \in
                                   {extractAndSaveOrReject(
                                        advanced, locations, plotThreads,
                                        fault, 1)} :
                                /\ locations' = extracted.locationStore
                                /\ plotThreads' = extracted.threadStore
                                /\ output' =
                                     IF extracted.failed
                                     THEN Rejected("saveResponse", fault,
                                                   extracted.calls)
                                     ELSE Notice(
                                         "Session processing complete!",
                                         "success",
                                         IF extracted.locations
                                              + extracted.threads > 0
                                         THEN <<extracted.locations,
                                                extracted.threads>>
                                         ELSE <<>>)
                       ELSE /\ output' = Notice("Phase completed",
                                                "success", <<>>)
                            /\ UNCHANGED <<locations, plotThreads>>
    /\ UNCHANGED <<idCounter, pending>>

\* window.saveResponse with `response` in the textarea when the storage call
\* number `fault` rejects: saveSession is call 1, the lookups and writes of
\* extractAndSaveFromSession follow. Nothing catches the rejection.
SaveResponseOrRejectWith(response, fault) ==
    /\ currentSession # NULL
    /\ LET updated == updatePhaseResponse(currentSession, response)
           validation == validatePhase(updated)
       IN  IF ~validation.valid
           THEN /\ currentSession' = updated
                /\ output' = Notice(validation.error, "error", <<>>)
                /\ UNCHANGED <<sessions, locations, plotThreads>>
           ELSE LET advanced == advancePhase(updated)
                IN  /\ currentSession' = advanced
                    /\ IF fault = 1
                       THEN /\ output' = Rejected("saveResponse", 1, 1)
                            /\ UNCHANGED <<sessions, locations, plotThreads>>
                       ELSE /\ sessions' = saveSession(sessions, advanced)
                            /\ IF isSessionComplete(advanced)
                               THEN \E extracted \in
                                           {extractAndSaveOrReject(
                                                advanced, locations, plotThreads,
                                                fault, 1)} :
                                        /\ locations' = extracted.locationStore
                                        /\ plotThreads' = extracted.threadStore
                                        /\ output' =
                                             IF extracted.failed
                                             THEN Rejected("saveResponse", fault,
                                                           extracted.calls)
                                             ELSE Notice(
                                                 "Session processing complete!",
                                                 "success",
                                                 IF extracted.locations
                                                      + extracted.threads > 0
                                                 THEN <<extracted.locations,
                                                        extracted.threads>>
                                                 ELSE <<>>)
                               ELSE /\ output' = Notice("Phase completed",
                                                        "success", <<>>)
                                    /\ UNCHANGED <<locations, plotThreads>>
    /\ UNCHANGED <<idCounter, pending>>

SaveResponseOrReject ==
    \E response \in FaultResponses, fault \in 0..MaxFault :
        SaveResponseOrRejectWith(response, fault)

\* sessions created, opened and saved phase by phase, any storage call of a
\* save rejecting
FaultNext ==
    \/ HandleCreateSession
    \/ OpenSession
    \/ SaveResponseOrReject

FaultSpec == Init /\ [][FaultNext]_vars
-----------------------------------------------------------------------------
(* Properties of saveResponse when storage calls reject, under FaultSpec *)

\* the pages of `parsed` the loop saves for the session: the first of its
\* name, which is not stored or is stored without the session
WritingPages(store, parsed, sessionId) ==
    {k \in DOMAIN parsed :
        /\ \A h \in 1..(k - 1) : ~SameName(parsed[h].name, parsed[k].name)
        /\ \A id \in DOMAIN store :
               SameName(store[id].name, parsed[k].name)
                   => ~Lists(store[id], sessionId)}

\* the number of the storage call that saves page k, `base` calls having
\* been issued before the loop: a lookup for each page up to k, and a write
\* for each of the saved ones
CallOfWrite(writing, k, base) ==
    base + k + Cardinality({w \in writing : w <= k})

\* the store `before` with the records `full` has for the pages `done`
AfterWrites(before, full, parsed, done) ==
    LET ids == {id \in DOMAIN full :
                   \E k \in done : SameName(full[id].name, parsed[k].name)}
    IN  [id \in DOMAIN before \cup ids |->
            IF id \in ids THEN full[id] ELSE before[id]]

\* C22: a step writes a Location or a Plot Thread only when the open session
\* has its three phases completed and the stored session is that session,
\* saveSession having put it; every session a stored entity lists is stored
\* with its three phases completed, so none is written for a session in
\* phase 1 or 2 or for one whose saveSession has rejected.
C22_ExtractionAfterSave ==
    [][/\ (locations' # locations \/ plotThreads' # plotThreads) =>
              /\ currentSession' # NULL
              /\ AllCompleted(currentSession')
              /\ currentSession'.id \in DOMAIN sessions'
              /\ sessions'[currentSession'.id] = currentSession'
              /\ \A id \in Written(locations, locations') :
                     Lists(locations'[id], currentSession'.id)
              /\ \A id \in Written(plotThreads, plotThreads') :
                     Lists(plotThreads'[id], currentSession'.id)
       /\ \A store \in {locations', plotThreads'} :
              \A id \in DOMAIN store :
                  \A i \in DOMAIN store[id].sessions :
                      /\ store[id].sessions[i].id \in DOMAIN sessions'
                      /\ AllCompleted(sessions'[store[id].sessions[i].id])]_vars

\* the third phase has been saved and the entities of its document stored
C22_Witness ==
    /\ Open
    /\ AllCompleted(currentSession)
    /\ sessions[currentSession.id] = currentSession
    /\ output = Notice("Session processing complete!", "success", <<2, 1>>)
    /\ Cardinality(DOMAIN locations) = 2
    /\ Cardinality(DOMAIN plotThreads) = 1
\* a save whose storage call number output'.at has rejected
RejectedSave ==
    /\ output'.kind = "rejection"
    /\ \E response \in FaultResponses :
           SaveResponseOrRejectWith(response, output'.at)

\* C23: when a lookup or a write of the merge rejects, the stores are as the
\* writes issued before that call have left them: the pages saved before it
\* are stored as the whole merge stores them, no other Location or Plot
\* Thread is written, the rejecting call is the last storage call issued,
\* the session saved before the merge stays saved, and saveResponse, the
\* caller, ends with the rejection.
C23_MergeStopsAtFailure ==
    [][(RejectedSave /\ output'.at > 1) =>
        \A at \in {output'.at}, pages \in {MergedLocations},
           threadPages \in {MergedThreads} :
        \A full \in {extractAndSaveFromSession(currentSession', locations,
                                               plotThreads)} :
            LET writing == WritingPages(locations, pages, currentSession'.id)
                writingThreads ==
                    WritingPages(plotThreads, threadPages, currentSession'.id)
                base == 1 + Len(pages) + Cardinality(writing)
                done == {k \in writing : CallOfWrite(writing, k, 1) < at}
                doneThreads ==
                    {k \in writingThreads :
                        CallOfWrite(writingThreads, k, base) < at}
            IN  /\ AllCompleted(currentSession')
                /\ sessions'[currentSession'.id] = currentSession'
                /\ at <= base + Len(threadPages) + Cardinality(writingThreads)
                /\ output'.calls = at
                /\ output'.op = "saveResponse"
                /\ locations'
                       = AfterWrites(locations, full.locationStore, pages, done)
                /\ plotThreads'
                       = AfterWrites(plotThreads, full.threadStore, threadPages,
                                     doneThreads)]_vars

\* the write of the second Location of a document of three Location pages
\* and two Plot Thread pages has rejected: the first Location is stored, and
\* no other Location and no Plot Thread
C23_Witness ==
    /\ Open
    /\ currentSession.phases[3].response = DocD
    /\ output = Rejected("saveResponse", 5, 5)
    /\ sessions[currentSession.id] = currentSession
    /\ Cardinality(DOMAIN locations) = 1
    /\ \E id \in DOMAIN locations :
           /\ locations[id].name = INN
           /\ SessionIds(locations[id]) = <<currentSession.id>>
    /\ plotThreads = EmptyStore
\* the messages validatePhase gives for a response it rejects
ValidationErrors ==
    {validatePhase(updatePhaseResponse(session, response)).error :
        session \in PureSessions, response \in {<<>>, Short}}

\* the storage call number `fault` is one the save of `response` issues:
\* saveSession for a response that is accepted, and for a session that is
\* then completed a lookup for each page of its document and a write for
\* each page to save
Issues(response, fault) ==
    LET updated == updatePhaseResponse(currentSession, response)
        advanced == advancePhase(updated)
        pages == parseLocations(advanced.phases[3].response, advanced.id,
                                advanced.title, advanced.date, 1)
        threadPages == parsePlotThreads(advanced.phases[3].response,
                                        advanced.id, advanced.title,
                                        advanced.date, 1)
    IN  /\ validatePhase(updated).valid
        /\ \/ fault = 1
           \/ /\ AllCompleted(advanced)
              /\ fault <= 1 + Len(pages) + Len(threadPages)
                     + Cardinality(WritingPages(locations, pages, advanced.id))
                     + Cardinality(WritingPages(plotThreads, threadPages,
                                                advanced.id))

\* C24: a save in which saveSession, a lookup or a write of an entity
\* rejects shows the operator an error notification with a message, which
\* is none of the messages shown when validatePhase rejects the response.
C24_StorageFailureNotified ==
    [][\A response \in FaultResponses, fault \in 1..MaxFault :
           (/\ Open
            /\ Issues(response, fault)
            /\ SaveResponseOrRejectWith(response, fault))
               => /\ output'.kind = "notification"
                  /\ output'.type = "error"
                  /\ output'.message # ""
                  /\ output'.message \notin ValidationErrors]_vars
-----------------------------------------------------------------------------
(* storage.js lookups by name, as its tests call them: on stores that hold   *)
(* the records saved before                                                  *)

\* how many records a store holds before the lookups
MaxStored == 2

Inns == <<"I","n","n","s">>

\* the names records are saved under: two that differ in case only, one that
\* another starts with, one that starts with another
StoredNames == {Inn, INN, <<"I","n">>, Inns, Cult}

\* the names looked up: the stored ones, one in lower case, and the empty one
LookupNames == StoredNames \cup {<<"i","n","n">>, <<>>}

Reverse(seq) == [i \in DOMAIN seq |-> seq[Len(seq) + 1 - i]]

\* the store after saveLocation of a record for each name in turn, the id
\* of each being its place
RECURSIVE LocationsNamed(_, _)
LocationsNamed(store, names) ==
    IF names = <<>> THEN store
    ELSE LocationsNamed(
             saveLocation(store, [id |-> freshId(store), name |-> Head(names),
                                  type |-> Town]),
             Tail(names))

RECURSIVE PlotThreadsNamed(_, _)
PlotThreadsNamed(store, names) ==
    IF names = <<>> THEN store
    ELSE PlotThreadsNamed(
             savePlotThread(store, [id |-> freshId(store), name |-> Head(names),
                                    status |-> Active]),
             Tail(names))

LookupInit ==
    /\ currentSession = NULL
    /\ sessions = EmptyStore
    /\ \E n \in 0..MaxStored :
           \E names \in [1..n -> StoredNames] :
               /\ locations = LocationsNamed(EmptyStore, names)
               /\ plotThreads = PlotThreadsNamed(EmptyStore, Reverse(names))
    /\ idCounter = 0
    /\ pending = <<>>
    /\ output = Notice("", "info", <<>>)

FindLocationByName ==
    \E name \in LookupNames :
        /\ output' = Returned("findLocationByName",
                              [name |-> name,
                               found |-> findLocationByName(locations, name)])
        /\ UNCHANGED <<currentSession, sessions, locations, plotThreads,
                       idCounter, pending>>

FindPlotThreadByName ==
    \E name \in LookupNames :
        /\ output' = Returned("findPlotThreadByName",
                              [name |-> name,
                               found |-> findPlotThreadByName(plotThreads, name)])
        /\ UNCHANGED <<currentSession, sessions, locations, plotThreads,
                       idCounter, pending>>

LookupNext ==
    \/ FindLocationByName
    \/ FindPlotThreadByName

LookupSpec == LookupInit /\ [][LookupNext]_vars

\* the two texts are equal but for the case of their letters
EqualUpToCase(a, b) ==
    /\ Len(a) = Len(b)
    /\ \A i \in DOMAIN a :
           \/ a[i] = b[i]
           \/ \E k \in DOMAIN UpperCase :
                  {a[i], b[i]} = {UpperCase[k], LowerCase[k]}

\* what a lookup of `name` in `store` may give: a record whose name is
\* `name` but for the case, and the absent value when no record has it
Matches(store, name, found) ==
    LET same == {id \in DOMAIN store : EqualUpToCase(store[id].name, name)}
    IN  IF same = {} THEN found = NULL
        ELSE \E id \in same : found = store[id]

\* C25: findLocationByName and findPlotThreadByName return a stored record
\* whose name is the name asked for but for the case of its letters, and the
\* absent value when the store has none; a record whose name only starts
\* with, or is the start of, the name asked for is not returned.
C25_FindByNameExact ==
    /\ (output.kind = "return" /\ output.op = "findLocationByName")
           => Matches(locations, output.val.name, output.val.found)
    /\ (output.kind = "return" /\ output.op = "findPlotThreadByName")
           => Matches(plotThreads, output.val.name, output.val.found)

\* 'inn' has been looked up among Plot Threads named 'Inns' and 'INN', and
\* the second is returned
C25_Witness ==
    /\ output.kind = "return"
    /\ output.op = "findPlotThreadByName"
    /\ output.val.name = <<"i","n","n">>
    /\ Cardinality(DOMAIN plotThreads) = 2
    /\ plotThreads[1].name = Inns
    /\ output.val.found = plotThreads[2]
    /\ plotThreads[2].name = INN
-----------------------------------------------------------------------------
(* workflow.js: parseLocations and parsePlotThreads called as their tests    *)
(* call them, on a document or on null                                       *)

\* how many pages a document has
MaxBlocks == 3

\* a document that is given: a string, the empty one or not
Document(text) == [null |-> FALSE, text |-> text]

\* what a call gives: the entities it returns, or that it has thrown
Entities(entities) == [raised |-> FALSE, entities |-> entities]

Raised == [raised |-> TRUE, entities |-> <<>>]

\* parseLocations reading the document it is given without a test for null
parseLocationsCall_Unguarded(document, sessionId, sessionTitle, sessionDate) ==
    IF document.null THEN Raised
    ELSE Entities(parseLocations(document.text, sessionId, sessionTitle,
                                 sessionDate, 1))

\* parseLocations(response, sessionId, sessionTitle, sessionDate) for a
\* response that is null or a string
parseLocationsCall(document, sessionId, sessionTitle, sessionDate) ==
    IF document.null THEN Entities(<<>>)
    ELSE Entities(parseLocations(document.text, sessionId, sessionTitle,
                                 sessionDate, 1))

parsePlotThreadsCall(document, sessionId, sessionTitle, sessionDate) ==
    IF document.null THEN Entities(<<>>)
    ELSE Entities(parsePlotThreads(document.text, sessionId, sessionTitle,
                                   sessionDate, 1))

Notes == <<"N","o","t","e","s">>

\* the pages documents are made of, with what each is and the name in its
\* heading: two Locations, one without Region, a Plot Thread, a page with
\* neither metadata line, and a page with the Type line and the
\* Status/Priority line, which the classification makes a Location
ParsePages ==
    {[text |-> LocationStub(Inn, Town, North), kind |-> "location",
      name |-> Inn],
     [text |-> LocationStub(Cult, Keep, <<>>), kind |-> "location",
      name |-> Cult],
     [text |-> PlotThreadStub(Inn, Active, High), kind |-> "thread",
      name |-> Inn],
     [text |-> H1 \o Notes \o NL \o NL \o Rep("x", 3), kind |-> "none",
      name |-> Notes],
     [text |-> LocationStub(Keep, Town, <<>>) \o NL \o NL
                  \o STATUS_LABEL \o SP \o Active \o BAR
                  \o PRIORITY_LABEL \o SP \o Low,
      kind |-> "location", name |-> Keep]}

PageSequences == UNION {[1..n -> ParsePages] : n \in 0..MaxBlocks}

\* the document of these pages, a horizontal rule between two of them
RECURSIVE JoinPages(_)
JoinPages(pages) ==
    IF pages = <<>> THEN <<>>
    ELSE IF Len(pages) = 1 THEN pages[1].text
    ELSE pages[1].text \o BLOCK_DELIMITER \o JoinPages(Tail(pages))

ParseInit ==
    /\ \E id \in {1, 2}, pages \in PageSequences :
           currentSession = completedSession(id, JoinPages(pages))
    /\ sessions = EmptyStore
    /\ locations = EmptyStore
    /\ plotThreads = EmptyStore
    /\ idCounter = 0
    /\ pending = <<>>
    /\ output = Notice("", "info", <<>>)

\* parseLocations called with the final text of the session, or with null
ParseLocations ==
    \E document \in {NULL, Document(currentSession.phases[3].response)} :
        LET called == parseLocationsCall(document, currentSession.id,
                                         currentSession.title,
                                         currentSession.date)
        IN  /\ output' = Returned("parseLocations",
                                  [document |-> document,
                                   raised |-> called.raised,
                                   entities |-> called.entities])
            /\ UNCHANGED <<currentSession, sessions, locations, plotThreads,
                           idCounter, pending>>

ParsePlotThreads ==
    \E document \in {NULL, Document(currentSession.phases[3].response)} :
        LET called == parsePlotThreadsCall(document, currentSession.id,
                                           currentSession.title,
                                           currentSession.date)
        IN  /\ output' = Returned("parsePlotThreads",
                                  [document |-> document,
                                   raised |-> called.raised,
                                   entities |-> called.entities])
            /\ UNCHANGED <<currentSession, sessions, locations, plotThreads,
                           idCounter, pending>>

ParseNext ==
    \/ ParseLocations
    \/ ParsePlotThreads

ParseSpec == ParseInit /\ [][ParseNext]_vars

\* the last call was one of the parser, of `op`
Parsed(op) == output.kind = "return" /\ output.op = op

\* the texts of the blocks the entities were made from
Blocks(entities) == {entities[i].rawContent : i \in DOMAIN entities}

\* C26: when the two parsers are called one after the other on one
\* document, no block the first has returned an entity for is a block the
\* second returns an entity for, whichever is called first.
C26_NoBlockInBoth ==
    [][(/\ output.kind = "return"
        /\ output'.kind = "return"
        /\ {output.op, output'.op} = {"parseLocations", "parsePlotThreads"}
        /\ ~output.val.document.null
        /\ output'.val.document = output.val.document)
           => Blocks(output.val.entities) \cap Blocks(output'.val.entities)
                  = {}]_vars

\* parsePlotThreads has been called on a page that has both metadata lines
\* followed by a Plot Thread page, and returns the second only
C26_Witness ==
    /\ Parsed("parsePlotThreads")
    /\ ~output.val.document.null
    /\ output.val.document.text
           = LocationStub(Keep, Town, <<>>) \o NL \o NL
                \o STATUS_LABEL \o SP \o Active \o BAR
                \o PRIORITY_LABEL \o SP \o Low
                \o BLOCK_DELIMITER \o PlotThreadStub(Inn, Active, High)
    /\ Len(output.val.entities) = 1
    /\ output.val.entities[1].rawContent = PlotThreadStub(Inn, Active, High)

\* C27: a call of parseLocations or of parsePlotThreads with null or with
\* the empty string does not throw and returns the empty sequence.
C27_EmptyInputEmptyResult ==
    (/\ Parsed("parseLocations") \/ Parsed("parsePlotThreads")
     /\ \/ output.val.document.null
        \/ output.val.document.text = <<>>)
        => /\ ~output.val.raised
           /\ output.val.entities = <<>>

\* parseLocations has been called with null
C27_Witness ==
    /\ Parsed("parseLocations")
    /\ output.val.document = NULL
    /\ ~output.val.raised
    /\ output.val.entities = <<>>

\* the entities are those of the pages of this kind: one for each, in the
\* order of the pages, with the name of its heading and its text
OneForEach(entities, pages, kind) ==
    LET mine == SelectSeq(pages, LAMBDA page : page.kind = kind)
    IN  /\ Len(entities) = Len(mine)
        /\ \A i \in DOMAIN mine :
               /\ entities[i].name = mine[i].name
               /\ entities[i].rawContent = mine[i].text

C29_OneSessionReference ==
    (Parsed("parseLocations") \/ Parsed("parsePlotThreads")) =>
        \A i \in DOMAIN output.val.entities :
            /\ Len(output.val.entities[i].sessions) = 1
            /\ output.val.entities[i].sessions[1].id = currentSession.id
            /\ output.val.entities[i].sessions[1].title = currentSession.title
            /\ output.val.entities[i].sessions[1].date = currentSession.date
            /\ DOMAIN output.val.entities[i].sessions[1]
                   = {"id", "title", "date"}

\* the document of session 2 has been parsed into two Locations, each with
\* session 2 as its one session
C29_Witness ==
    /\ Parsed("parseLocations")
    /\ currentSession.id = 2
    /\ Len(output.val.entities) = 2
    /\ \A i \in DOMAIN output.val.entities :
           output.val.entities[i].sessions
               = <<[id |-> 2, title |-> <<"S", "2">>,
                    date |-> <<"2","0","2","4">>]>>
-----------------------------------------------------------------------------
\* C30: every tag parseTags returns is in lower case, has no blank at
\* either end and is not empty, no tag is returned twice, and the empty
\* string gives no tag.
C30_TagsCanonical ==
    Parsed("parseTags") =>
        LET tags == output.val.tags
        IN  /\ \A i \in DOMAIN tags :
                   /\ tags[i] # <<>>
                   /\ trim(tags[i]) = tags[i]
                   /\ \A k \in DOMAIN tags[i] :
                          \A u \in DOMAIN UpperCase : tags[i][k] # UpperCase[u]
            /\ \A i, j \in DOMAIN tags : tags[i] = tags[j] => i = j
            /\ output.val.tagString = <<>> => tags = <<>>

-----------------------------------------------------------------------------
(* Deleting a session *)

\* the entities of `store` that list the session
Listing(store, sessionId) ==
    {k \in DOMAIN store : Lists(store[k], sessionId)}

\* C31: deleting the open session takes its record out of the session
\* store, so that getSession finds nothing under its id, and leaves every
\* Location and every Plot Thread as it was, with the references to the
\* deleted session still in their lists.
C31_DeleteLeavesEntities ==
    [][DeleteCurrentSession =>
          /\ getSession(sessions', currentSession.id) = NULL
          /\ currentSession.id \notin DOMAIN sessions'
          /\ locations' = locations
          /\ plotThreads' = plotThreads]_vars

\* a stored session is gone while a Location and a Plot Thread still list it
C31_Witness ==
    /\ output = Notice("Session deleted", "success", <<>>)
    /\ sessions = EmptyStore
    /\ idCounter = 1
    /\ Listing(locations, generateId(0)) # {}
    /\ Listing(plotThreads, generateId(0)) # {}

-----------------------------------------------------------------------------
(* generatePrompt as a function of the session *)

\* the sessions that have the title, date, transcript, currentPhase and
\* responses of `session`, and any id, tags, prompt fields and completed
\* flags
SamePromptInputs(session) ==
    {[[session EXCEPT !.id = id, !.tags = tags]
        EXCEPT !.phases = [i \in DOMAIN PHASES |->
                              [@[i] EXCEPT !.completed = done[i],
                                           !.prompt = prompt]]] :
        id \in {session.id, session.id + 1},
        tags \in {<<>>, <<Inn>>},
        done \in [DOMAIN PHASES -> BOOLEAN],
        prompt \in {<<>>, Plain}}

\* C32: generatePrompt changes no field of the session it is given (the
\* prompt, response and completed fields of the phases and currentPhase
\* included) nor anything stored, and the text it returns is the text it
\* returns for every session of the same title, date, transcript,
\* currentPhase and phase responses.
C32_GeneratePromptPure ==
    [][GeneratePrompt =>
          /\ currentSession' = currentSession
          /\ sessions' = sessions
          /\ locations' = locations
          /\ plotThreads' = plotThreads
          /\ \A other \in SamePromptInputs(currentSession) :
                 generatePrompt(other) = output'.val]_vars

\* the prompt of phase 2 has been generated from a session that holds a
\* document as the response of phase 1, and the prompt fields are empty
C32_Witness ==
    /\ Open
    /\ output.kind = "return"
    /\ output.op = "generatePrompt"
    /\ currentSession.currentPhase = 2
    /\ currentSession.phases[1].response = DocA
    /\ output.val = generatePrompt(currentSession)
    /\ \A i \in DOMAIN PHASES : currentSession.phases[i].prompt = <<>>

-----------------------------------------------------------------------------
(* The responses of the phases *)

\* the phases the session has left behind keep their responses from
\* `before` to `after`
PassedResponsesKept(before, after) ==
    \A k \in 1..(Len(PHASES) - 1) :
        before.currentPhase > k =>
            after.phases[k].response = before.phases[k].response

\* C33: updatePhaseResponse changes the response of the phase at
\* currentPhase and nothing else of the session (the other responses, the
\* completed flags, currentPhase, id, title, date and transcript stay), and
\* nothing stored; and no operation on a session changes the response of a
\* phase below its currentPhase, in memory or in the stored record.
C33_OnlyCurrentResponse ==
    [][/\ UpdatePhaseResponse =>
            /\ currentSession' =
                  [currentSession EXCEPT
                      !.phases[currentSession.currentPhase].response =
                          currentSession'.phases[currentSession.currentPhase].response]
            /\ sessions' = sessions
       /\ SessionOperation => PassedResponsesKept(currentSession, currentSession')
       /\ \A id \in DOMAIN sessions \cap DOMAIN sessions' :
            PassedResponsesKept(sessions[id], sessions'[id])]_vars

\* updatePhaseResponse has put a short text in phase 2 of a session that
\* is completed up to phase 1 and holds a document there
C33_Witness ==
    /\ Open
    /\ output = Returned("updatePhaseResponse", NULL)
    /\ currentSession.currentPhase = 2
    /\ Completed(currentSession, 1)
    /\ currentSession.phases[1].response = DocA
    /\ currentSession.phases[2].response = Short

\* C34: a saveResponse whose text validatePhase rejects leaves the response
\* of the current phase of the open session as it was before the call.
C34_RejectedTextNotKept ==
    [][\A response \in Responses :
        (/\ SaveResponseWith(response)
         /\ ~validatePhase(updatePhaseResponse(currentSession, response)).valid) =>
            currentSession'.phases[currentSession.currentPhase].response =
                currentSession.phases[currentSession.currentPhase].response]_vars

-----------------------------------------------------------------------------
(* The completed phases and currentPhase *)

\* the completed phases of the session are the ones before currentPhase,
\* with or without the one at currentPhase; the phases after it are untouched
CompletedPrefix(session) ==
    /\ \A i \in DOMAIN PHASES :
          /\ i < session.currentPhase => Completed(session, i)
          /\ i > session.currentPhase =>
                /\ ~Completed(session, i)
                /\ session.phases[i].response = <<>>
    /\ isSessionComplete(session) => session.currentPhase = Len(PHASES)

\* C35: in a session made by createSession and changed by
\* updatePhaseResponse and advancePhase only (directly or through
\* saveResponse), every phase numbered below currentPhase is completed, every
\* phase numbered above it is not completed and has an empty response, and
\* when isSessionComplete holds currentPhase is 3; the same of every stored
\* session.
C35_CompletedPrefix ==
    /\ Open => CompletedPrefix(currentSession)
    /\ \A id \in DOMAIN sessions : CompletedPrefix(sessions[id])

\* updatePhaseResponse has written to phase 2 of a session whose phase 1
\* is completed, and phase 3 is untouched
C35_Witness ==
    /\ Open
    /\ output = Returned("updatePhaseResponse", NULL)
    /\ currentSession.currentPhase = 2
    /\ Completed(currentSession, 1)
    /\ currentSession.phases[2].response = DocA
    /\ ~Completed(currentSession, 3)
    /\ currentSession.phases[3].response = <<>>

-----------------------------------------------------------------------------
(* saveResponse when saveSession rejects, under FaultSpec *)

\* C38: when saveSession rejects during a saveResponse, the completed flags
\* and currentPhase of the open session are what they were before the call,
\* and nothing is written to the location and plot-thread stores.
C38_RejectedSaveNotAhead ==
    [][(RejectedSave /\ output'.at = 1) =>
          /\ \A i \in DOMAIN PHASES :
                Completed(currentSession', i) = Completed(currentSession, i)
          /\ currentSession'.currentPhase = currentSession.currentPhase
          /\ locations' = locations
          /\ plotThreads' = plotThreads]_vars

-----------------------------------------------------------------------------
(* window.saveResponse invoked again while an invocation is suspended.  An   *)
(* invocation runs from the click to its first await in one step, and from   *)
(* the completion of the request it awaits to its next await, or to its end, *)
(* in one step.  The requests are IndexedDB requests of transactions on the  *)
(* sessions store, which complete in the order they were issued.             *)

\* invocations of saveResponse suspended at one time
MaxPending == 2

\* what the operator has in the textarea, one text too short and two long
\* enough: texts with no Location or Plot Thread page, for which
\* extractAndSaveFromSession issues no storage call
ReentrantResponses == {Short, Plain, Pad(0, MinResponseLength + 1, 0)}

\* an invocation of saveResponse at `await saveSession(currentSession)`:
\* `request` is the copy of the session store.put took when it was called;
\* `phase` records the phase that was current when the invocation started
AwaitingSaveSession(request, phase) ==
    [op |-> "saveResponse", at |-> "saveSession", request |-> request,
     phase |-> phase]

\* an invocation of saveResponse at `await updateStats()`
AwaitingUpdateStats(frame) == [frame EXCEPT !.at = "updateStats"]

\* the page with the session handleCreateSession has created and opened
ReentrantInit ==
    /\ \E tagsInput \in {<<>>} \cup TagInputs :
          currentSession =
              createSession(generateId(0), <<"S","1">>, <<"2","0","2","4">>,
                            <<"t","x","t">>, parseTags(tagsInput))
    /\ sessions = saveSession(EmptyStore, currentSession)
    /\ locations = EmptyStore
    /\ plotThreads = EmptyStore
    /\ idCounter = 1
    /\ output = Notice("Session created", "success", <<>>)
    /\ pending = <<>>

\* window.saveResponse from the click to `await saveSession(currentSession)`,
\* or to the return after the validation error
TriggerSaveResponseWith(response) ==
    /\ currentSession # NULL
    /\ Len(pending) < MaxPending
    /\ LET updated == updatePhaseResponse(currentSession, response)
           validation == validatePhase(updated)
       IN  IF ~validation.valid
           THEN /\ currentSession' = updated
                /\ output' = Notice(validation.error, "error", <<>>)
                /\ UNCHANGED pending
           ELSE LET advanced == advancePhase(updated)
                IN  /\ currentSession' = advanced
                    /\ pending' =
                          Append(pending,
                                 AwaitingSaveSession(advanced,
                                                     currentSession.currentPhase))
                    /\ UNCHANGED output
    /\ UNCHANGED <<sessions, locations, plotThreads, idCounter>>

TriggerSaveResponse ==
    \E response \in ReentrantResponses : TriggerSaveResponseWith(response)

\* the request of the oldest suspended invocation completes, and the
\* invocation runs on: after saveSession to `await updateStats()` when the
\* session is complete and to the end when it is not, after updateStats to
\* the end
ResumeSaveResponse ==
    /\ pending # <<>>
    /\ LET frame == Head(pending)
       IN  IF frame.at = "saveSession"
           THEN /\ sessions' = saveSession(sessions, frame.request)
                /\ IF isSessionComplete(currentSession)
                   THEN \E extracted \in
                               {extractAndSaveFromSession(currentSession, locations,
                                                          plotThreads)} :
                            /\ locations' = extracted.locationStore
                            /\ plotThreads' = extracted.threadStore
                            /\ output' =
                                 Notice("Session processing complete!", "success",
                                        IF extracted.locations + extracted.threads > 0
                                        THEN <<extracted.locations, extracted.threads>>
                                        ELSE <<>>)
                            /\ pending' =
                                 Append(Tail(pending), AwaitingUpdateStats(frame))
                   ELSE /\ output' = Notice("Phase completed", "success", <<>>)
                        /\ pending' = Tail(pending)
                        /\ UNCHANGED <<locations, plotThreads>>
           ELSE /\ pending' = Tail(pending)
                /\ UNCHANGED <<sessions, locations, plotThreads, output>>
    /\ UNCHANGED <<currentSession, idCounter>>

ReentrantNext ==
    \/ TriggerSaveResponse
    \/ ResumeSaveResponse

ReentrantSpec == ReentrantInit /\ [][ReentrantNext]_vars

\* an invocation of saveResponse is suspended at saveSession
SaveInFlight ==
    \E i \in DOMAIN pending : pending[i].at = "saveSession"

\* C36: when saveResponse is invoked while an earlier invocation on the
\* open session is suspended at saveSession, the session is not advanced
\* again and the text goes to no phase but the one that was current when the
\* earlier invocation started: currentPhase, the completed flags and the
\* responses of the other phases are after the second invocation what the
\* first has left.
C36_SecondSaveAdvancesNothing ==
    [][(TriggerSaveResponse /\ SaveInFlight) =>
          \A i \in DOMAIN pending :
              pending[i].at = "saveSession" =>
                  /\ currentSession'.currentPhase = currentSession.currentPhase
                  /\ \A k \in DOMAIN PHASES :
                        /\ Completed(currentSession', k)
                              = Completed(currentSession, k)
                        /\ k # pending[i].phase =>
                              currentSession'.phases[k].response
                                  = currentSession.phases[k].response]_vars

-----------------------------------------------------------------------------
(* extractAndSaveFromSession invoked for a session while an invocation for   *)
(* another session is suspended at a storage call.  An invocation runs from  *)
(* its first line to its first await in one step; a step then completes the  *)
(* lookup or the write an invocation awaits and runs the invocation on to    *)
(* its next await, or to its return.                                         *)

\* completed sessions whose merges run in one behaviour
MaxInvocations == 2

\* the phase-3 responses of those sessions: a Location and a Plot Thread of
\* one name, and the two as another session reports them, the name in
\* another case
InterleavedResponses ==
    {DocC,
     LocationStub(INN, Keep, <<>>)
         \o BLOCK_DELIMITER \o PlotThreadStub(INN, Resolved, Low)}

LocationCalls == {"start", "findLocationByName", "saveLocation"}

\* the locals of an invocation that has parsed its document: `k` is the
\* page the loop named by `at` is at, `existing` what the lookup of its name
\* has resolved with, `record` what is passed to saveLocation or
\* savePlotThread
Started(sessionRef, parsedLocations, parsedThreads) ==
    [op |-> "extractAndSaveFromSession", at |-> "start", k |-> 0,
     sessionRef |-> sessionRef,
     parsedLocations |-> parsedLocations, parsedThreads |-> parsedThreads,
     existing |-> NULL, record |-> NULL,
     savedLocations |-> 0, savedThreads |-> 0]

\* the invocation once the pass for page k is over: at the lookup of the
\* next page of the loop, at the first lookup of the second loop, or at the
\* return
afterPage(frame) ==
    LET next == [frame EXCEPT !.existing = NULL, !.record = NULL]
    IN  IF frame.at \in LocationCalls /\ frame.k < Len(frame.parsedLocations)
        THEN [next EXCEPT !.at = "findLocationByName", !.k = frame.k + 1]
        ELSE IF frame.at \in LocationCalls /\ frame.parsedThreads # <<>>
        THEN [next EXCEPT !.at = "findPlotThreadByName", !.k = 1]
        ELSE IF frame.at \notin LocationCalls /\ frame.k < Len(frame.parsedThreads)
        THEN [next EXCEPT !.at = "findPlotThreadByName", !.k = frame.k + 1]
        ELSE [next EXCEPT !.at = "return"]

\* the invocation storing its own page under the id of the record found
afterFindLocation_Replace(frame, existing) ==
    LET loc == frame.parsedLocations[frame.k]
    IN  IF existing # NULL
        THEN IF ~hasSession(existing, frame.sessionRef.id)
             THEN [frame EXCEPT
                      !.at = "saveLocation",
                      !.existing = existing,
                      !.record = [loc EXCEPT !.id = existing.id]]
             ELSE afterPage(frame)
        ELSE [frame EXCEPT !.at = "saveLocation", !.record = loc]

\* the invocation after findLocationByName has resolved with `existing`
afterFindLocation(frame, existing) ==
    LET loc == frame.parsedLocations[frame.k]
    IN  IF existing # NULL
        THEN IF ~hasSession(existing, frame.sessionRef.id)
             THEN [frame EXCEPT
                      !.at = "saveLocation",
                      !.existing = existing,
                      !.record =
                          [existing EXCEPT
                              !.sessions = Append(@, frame.sessionRef),
                              !.rawContent = @ \o BLOCK_DELIMITER \o loc.rawContent]]
             ELSE afterPage(frame)
        ELSE [frame EXCEPT !.at = "saveLocation", !.record = loc]

\* the invocation after findPlotThreadByName has resolved with `existing`
afterFindPlotThread(frame, existing) ==
    LET thread == frame.parsedThreads[frame.k]
    IN  IF existing # NULL
        THEN IF ~hasSession(existing, frame.sessionRef.id)
             THEN [frame EXCEPT
                      !.at = "savePlotThread",
                      !.existing = existing,
                      !.record =
                          [existing EXCEPT
                              !.sessions = Append(@, frame.sessionRef),
                              !.status = thread.status,
                              !.rawContent =
                                  @ \o BLOCK_DELIMITER \o thread.rawContent]]
             ELSE afterPage(frame)
        ELSE [frame EXCEPT !.at = "savePlotThread", !.record = thread]

\* the invocation after the write it awaited
afterSave(frame) ==
    afterPage(IF frame.existing # NULL THEN frame
              ELSE IF frame.at = "saveLocation"
              THEN [frame EXCEPT !.savedLocations = @ + 1]
              ELSE [frame EXCEPT !.savedThreads = @ + 1])

\* the suspended invocations and what is shown once invocation i has run
\* on to `next`
Suspend(i, next) ==
    IF next.at = "return"
    THEN /\ pending' = SubSeq(pending, 1, i - 1)
                           \o SubSeq(pending, i + 1, Len(pending))
         /\ output' = Returned("extractAndSaveFromSession",
                               [locations |-> next.savedLocations,
                                threads |-> next.savedThreads])
    ELSE /\ pending' = [pending EXCEPT ![i] = next]
         /\ UNCHANGED output

\* extractAndSaveFromSession(session) from its first line to its first
\* await, for a completed session that has just been saved; the parsed
\* entities get ids no other entity has
StartMergeWith(id, response) ==
    /\ id \notin DOMAIN sessions
    /\ LET session == completedSession(id, response)
           parsedLocations ==
               parseLocations(response, session.id, session.title, session.date,
                              generateId(idCounter))
           parsedThreads ==
               parsePlotThreads(response, session.id, session.title, session.date,
                                generateId(idCounter + Len(parsedLocations)))
       IN  /\ currentSession' = session
           /\ sessions' = saveSession(sessions, session)
           /\ idCounter' = idCounter + Len(parsedLocations) + Len(parsedThreads)
           /\ pending' =
                 Append(pending,
                        afterPage(Started(SessionRef(session), parsedLocations,
                                          parsedThreads)))
    /\ UNCHANGED <<locations, plotThreads, output>>

StartMerge ==
    \E id \in 1..MaxInvocations, response \in InterleavedResponses :
        StartMergeWith(id, response)

\* `await findLocationByName(loc.name)` of invocation i resolves
CompleteFindLocationByNameBy(i) ==
    /\ pending[i].at = "findLocationByName"
    /\ Suspend(i, afterFindLocation(
                      pending[i],
                      findLocationByName(
                          locations,
                          pending[i].parsedLocations[pending[i].k].name)))
    /\ UNCHANGED <<currentSession, sessions, locations, plotThreads, idCounter>>

\* `await saveLocation(...)` of invocation i resolves
CompleteSaveLocationBy(i) ==
    /\ pending[i].at = "saveLocation"
    /\ locations' = saveLocation(locations, pending[i].record)
    /\ Suspend(i, afterSave(pending[i]))
    /\ UNCHANGED <<currentSession, sessions, plotThreads, idCounter>>

\* `await findPlotThreadByName(thread.name)` of invocation i resolves
CompleteFindPlotThreadByNameBy(i) ==
    /\ pending[i].at = "findPlotThreadByName"
    /\ Suspend(i, afterFindPlotThread(
                      pending[i],
                      findPlotThreadByName(
                          plotThreads,
                          pending[i].parsedThreads[pending[i].k].name)))
    /\ UNCHANGED <<currentSession, sessions, locations, plotThreads, idCounter>>

\* `await savePlotThread(...)` of invocation i resolves
CompleteSavePlotThreadBy(i) ==
    /\ pending[i].at = "savePlotThread"
    /\ plotThreads' = savePlotThread(plotThreads, pending[i].record)
    /\ Suspend(i, afterSave(pending[i]))
    /\ UNCHANGED <<currentSession, sessions, locations, idCounter>>

CompleteFindLocationByName == \E i \in DOMAIN pending : CompleteFindLocationByNameBy(i)

CompleteSaveLocation == \E i \in DOMAIN pending : CompleteSaveLocationBy(i)

CompleteFindPlotThreadByName == \E i \in DOMAIN pending : CompleteFindPlotThreadByNameBy(i)

CompleteSavePlotThread == \E i \in DOMAIN pending : CompleteSavePlotThreadBy(i)

InterleavedNext ==
    \/ StartMerge
    \/ CompleteFindLocationByName
    \/ CompleteSaveLocation
    \/ CompleteFindPlotThreadByName
    \/ CompleteSavePlotThread

InterleavedSpec == Init /\ [][InterleavedNext]_vars

-----------------------------------------------------------------------------
(* Properties of interleaved merges, under InterleavedSpec *)

\* the ids of the stored entities of this name, whatever the case
Named(store, name) == {j \in DOMAIN store : SameName(store[j].name, name)}

\* every entity of `store` lists the sessions of `ids` that have a page of
\* its name in what `parse` finds in their documents
ListsContributors(store, ids, parse(_, _, _, _, _)) ==
    \A id \in ids :
        \A page \in Range(parse(sessions[id].phases[3].response, id,
                                  sessions[id].title, sessions[id].date, 1)) :
            \A j \in Named(store, page.name) : Lists(store[j], id)

WriteKeepsOne(before, after, record, existing, sessionId) ==
    /\ Cardinality(Named(after, record.name))
           = (IF existing = NULL THEN 1 ELSE Cardinality(Named(before, record.name)))
    /\ \A j \in Named(before, record.name) :
           /\ j \in DOMAIN after
           /\ \A id \in Range(SessionIds(before[j])) : Lists(after[j], id)
    /\ \E j \in Named(after, record.name) : Lists(after[j], sessionId)

-----------------------------------------------------------------------------
(* The operator taking a session through its phases and saving it again     *)
(* once it is complete, every storage call succeeding                        *)

\* what the operator has in the textarea: a text too short, and two
\* documents that share a name
ResaveResponses == {Short, DocC, DocD}

\* window.saveResponse with one of these texts
Resave == \E response \in ResaveResponses : SaveResponseWith(response)

ResaveNext ==
    \/ HandleCreateSession
    \/ Resave

ResaveSpec == Init /\ [][ResaveNext]_vars

-----------------------------------------------------------------------------
(* The operator who keeps submitting texts until the session is complete,   *)
(* every storage call succeeding                                             *)

\* what the operator submits: nothing, a text too short, and three texts
\* long enough, with no page in them
LiveResponses ==
    {<<>>, Short, Plain, Pad(0, MinResponseLength + 1, 0),
     Pad(0, MinResponseLength + 2, 0)}

\* the texts among them that validatePhase accepts
AcceptedResponses ==
    {response \in LiveResponses : Len(trim(response)) >= MinResponseLength}

\* window.saveResponse with one of these texts
Submit == \E response \in LiveResponses : SaveResponseWith(response)

\* window.saveResponse with a text validatePhase accepts
SubmitAccepted == \E response \in AcceptedResponses : SaveResponseWith(response)

LiveNext == Submit

\* from the session just created, the operator never stops submitting
\* accepted texts while a submission of one changes anything
LiveSpec == ReentrantInit /\ [][LiveNext]_vars /\ WF_vars(SubmitAccepted)

\* C39: when the operator keeps submitting texts validatePhase accepts and
\* the storage calls succeed, an open session eventually has
\* isSessionComplete; a new session has no phase completed, every accepted
\* save of a session that is not complete completes exactly one more phase
\* and a rejected one none, so that a session is complete after its third
\* accepted save and not before.
C39_CompleteAfterThreeSaves ==
    /\ CompletedCount(currentSession) = 0
    /\ Open ~> (Open /\ isSessionComplete(currentSession))
    /\ [][\A response \in LiveResponses :
            SaveResponseWith(response) =>
                CompletedCount(currentSession')
                    = (IF Len(trim(response)) < MinResponseLength
                          \/ isSessionComplete(currentSession)
                       THEN CompletedCount(currentSession)
                       ELSE CompletedCount(currentSession) + 1)]_vars

\* a session is complete and stored so, with the three texts of its three
\* accepted saves
C39_Witness ==
    /\ Open
    /\ isSessionComplete(currentSession)
    /\ sessions[currentSession.id] = currentSession
    /\ currentSession.phases[1].response = Plain
    /\ currentSession.phases[2].response = Pad(0, MinResponseLength + 1, 0)
    /\ currentSession.phases[3].response = Pad(0, MinResponseLength + 2, 0)

-----------------------------------------------------------------------------
(* Saving a session again once it is complete, under ResaveSpec *)

\* the records of `before` that list the session are in `after` as they were
ListedKept(before, after, sessionId) ==
    \A j \in DOMAIN before :
        Lists(before[j], sessionId) =>
            /\ j \in DOMAIN after
            /\ after[j] = before[j]

\* each page of `parsed` the lookup finds nothing for is in `after` as a
\* record of its own, with the text of the page and the session alone, and
\* `after` has no other record that `before` has not
AbsentCreated(before, after, parsed, ref) ==
    /\ \A k \in AbsentPages(before, parsed) :
          \E j \in DOMAIN after \ DOMAIN before :
              /\ after[j].name = parsed[k].name
              /\ after[j].rawContent = parsed[k].rawContent
              /\ after[j].sessions = <<ref>>
    /\ Cardinality(DOMAIN after)
          = Cardinality(DOMAIN before) + Cardinality(AbsentPages(before, parsed))

\* C40: an accepted saveResponse on a session that is complete stores the
\* text as the response of phase 3 and runs the extraction on that text: the
\* Locations and Plot Threads that list the session stay as they are, status,
\* rawContent and sessions included, whatever the new text says of them; each
\* name of the new text that is not stored gets a record made from its page;
\* and the notification counts those records and no other.
C40_ResaveCreatesAbsentOnly ==
    [][\A response \in ResaveResponses :
          (/\ Open
           /\ isSessionComplete(currentSession)
           /\ Len(trim(response)) >= MinResponseLength
           /\ SaveResponseWith(response)) =>
              \A parsedLocations \in
                      {parseLocations(response, currentSession.id,
                                      currentSession.title, currentSession.date, 1)},
                 parsedThreads \in
                      {parsePlotThreads(response, currentSession.id,
                                        currentSession.title, currentSession.date, 1)} :
                  /\ currentSession'.phases[3].response = response
                  /\ sessions'[currentSession.id] = currentSession'
                  /\ ListedKept(locations, locations', currentSession.id)
                  /\ ListedKept(plotThreads, plotThreads', currentSession.id)
                  /\ AbsentCreated(locations, locations', parsedLocations,
                                   SessionRef(currentSession))
                  /\ AbsentCreated(plotThreads, plotThreads', parsedThreads,
                                   SessionRef(currentSession))
                  /\ \A created \in
                          {<<Cardinality(AbsentPages(locations, parsedLocations)),
                             Cardinality(AbsentPages(plotThreads, parsedThreads))>>} :
                        output' = Notice("Session processing complete!", "success",
                                         IF created[1] + created[2] > 0
                                         THEN created ELSE <<>>)]_vars

\* a session completed with one document has been saved again with
\* another: the Location and the Plot Thread it had are as the first document
\* made them, and the one Location only the second document has is stored
\* and counted
C40_Witness ==
    /\ Open
    /\ isSessionComplete(currentSession)
    /\ currentSession.phases[3].response = DocD
    /\ output = Notice("Session processing complete!", "success", <<1, 0>>)
    /\ \E j \in DOMAIN locations :
          /\ locations[j].rawContent = LocationBlock(Inn, Town, North, Cult)
          /\ SessionIds(locations[j]) = <<currentSession.id>>
    /\ \E j \in DOMAIN plotThreads :
          /\ plotThreads[j].rawContent = PlotThreadBlock(Inn, Active, High, Inn)
          /\ plotThreads[j].status = Active
    /\ \E j \in DOMAIN locations :
          locations[j].rawContent = LocationStub(Cult, Keep, North)
    /\ Cardinality(DOMAIN locations) = 2
    /\ Cardinality(DOMAIN plotThreads) = 1

=============================================================================
